---- MODULE Spec2Model ----
(***************************************************************************)
(* A model of the GPU-rental session manager (src/manager.ts) and of the   *)
(* marketplace client it drives (src/unnamed/part_001, VastAI).            *)
(*                                                                         *)
(* The manager's own state is blockedMachineIDs, throttledIPs, sessions    *)
(* and usage.  The world it talks to is the blocklist file, the            *)
(* marketplace's instance listing and the local table of autossh           *)
(* processes.  Every handler is a function of the state and of the answers *)
(* the world gives it during that handler; Next draws those answers.       *)
(*                                                                         *)
(* Text is a sequence of one-character strings, so that join / split /     *)
(* parseInt / trim / toLowerCase / startsWith are computed, not assumed.   *)
(* Decimal inputs are written as scaled integers (total_flops in 1/10      *)
(* TFLOPS, prices and the utilization threshold in 1/1000) and turned into *)
(* the floating-point numbers the program computes with by Decimal.        *)
(***************************************************************************)
EXTENDS Integers, Sequences, FiniteSets, TLC

VARIABLES
    pc,                 \* position of run(): which handler is next
    mi,                 \* index of the session the for-loop of monitor() is at
    max3090Price,       \* manager.ts:37, in 1/1000 $/h
    blockedMachineIDs,  \* manager.ts:30
    throttledIPs,       \* manager.ts:31
    sessions,           \* manager.ts:32
    usage,              \* manager.ts:33, keyed by instance id
    blockedFile,        \* content of blocked_machines.txt
    market,             \* the marketplace's listing of our instances, oldest first
    nextId,             \* the id the marketplace gives the next instance
    procs,              \* the live autossh processes, in ps order
    calls,              \* the outward calls made by the most recent handler step
    everBlocked,        \* history: machine ids blocked by an eviction so far
    pushed,             \* history: the samples pushed per instance by this process
    reloaded,           \* history: this process loaded a machine id from the file
    evicted             \* history: the block-and-terminate runs of the current cycle

vars == <<pc, mi, blockedMachineIDs, throttledIPs, sessions, usage, blockedFile,
          market, nextId, procs, calls, everBlocked, pushed, reloaded,
          max3090Price, evicted>>

----------------------------------------------------------------------------
(* Configuration and bounds *)

\* SessionManager constructor arguments (index.ts reads them from the environment)
maxSessions == 2
\* utilizationThreshold 0.55, in 1/1000
utilizationThreshold == 550
\* MAX_3090_PRICE, the default 0.24, in 1/1000 $/h
MAX_3090_PRICE == 240
\* price ceilings an operator may configure, in 1/1000 $/h
PriceCeilings == {171, 200, 240, 300}

\* capacity of the usage window and the length it must exceed before a verdict
UsageWindow == 60
UsageMinSamples == 30

\* first local tunnel port minus one
TunnelPortBase == 10000

\* bounds of the model
MaxInstanceId == 3
MaxBlocked == 3
MaxPushes == 62

\* JavaScript NaN (machine ids are positive integers)
NaN == 0 - 1

----------------------------------------------------------------------------
(* Numbers.  The prices, the ratios and the usage samples are JavaScript       *)
(* numbers: IEEE-754 binary64, rounded to nearest, ties to even, after every  *)
(* operation.  A finite number that is not negative is [hi, lo, e]: the value *)
(* (hi * 2^28 + lo) * 2^e, the mantissa hi * 2^28 + lo being zero (with e = 0)*)
(* or in 2^52 .. 2^53 - 1.  The numbers of this program are far from the      *)
(* subnormal and the infinite ones, which are left out; so are a zero or      *)
(* negative divisor and NaN.  The mantissa is kept in two limbs of 28 bits    *)
(* because TLC computes with 32-bit integers.                                 *)

Zero == [hi |-> 0, lo |-> 0, e |-> 0]

\* two-limb integers x, y >= 0: x >= y, x - y (for x >= y), x + y, x \div 2
Geq(x, y) == x.hi > y.hi \/ (x.hi = y.hi /\ x.lo >= y.lo)

Sub(x, y) ==
    IF x.lo >= y.lo THEN [hi |-> x.hi - y.hi, lo |-> x.lo - y.lo]
    ELSE [hi |-> x.hi - y.hi - 1, lo |-> x.lo + 2^28 - y.lo]

Add(x, y) ==
    [hi |-> x.hi + y.hi + (x.lo + y.lo) \div 2^28, lo |-> (x.lo + y.lo) % 2^28]

Half(x) == [hi |-> x.hi \div 2, lo |-> (x.hi % 2) * 2^27 + x.lo \div 2]

\* Rounding to nearest, ties to even: q is a 54-bit integer, the mantissa
\* followed by one more bit, sticky tells that the exact value is above q, and
\* e is the exponent of the mantissa.
Round(q, sticky, e) ==
    LET m == Half(q)
        up == q.lo % 2 = 1 /\ (sticky \/ m.lo % 2 = 1)
        r == IF up THEN Add(m, [hi |-> 0, lo |-> 1]) ELSE m
    IN  IF r.hi = 2^25 THEN [hi |-> 2^24, lo |-> 0, e |-> e + 1]
        ELSE [hi |-> r.hi, lo |-> r.lo, e |-> e]

\* the number of an integer 0 <= n < 2^28 (every such integer is a number)
RECURSIVE Normalize(_, _)
Normalize(m, e) ==
    IF m.hi >= 2^24 THEN [hi |-> m.hi, lo |-> m.lo, e |-> e]
    ELSE Normalize(Add(m, m), e - 1)

FromInt(n) == IF n = 0 THEN Zero ELSE Normalize([hi |-> 0, lo |-> n], 0)

\* long division, one bit of the quotient a turn, until the quotient q has its
\* 54 bits; r is the remainder
RECURSIVE DivideBits(_, _, _)
DivideBits(q, r, b) ==
    IF q.hi >= 2^25 THEN [q |-> q, r |-> r]
    ELSE LET r2 == Add(r, r)
         IN  IF Geq(r2, b)
             THEN DivideBits(Add(Add(q, q), [hi |-> 0, lo |-> 1]), Sub(r2, b), b)
             ELSE DivideBits(Add(q, q), r2, b)

\* x / y for y > 0
Divide(x, y) ==
    IF x = Zero THEN Zero
    ELSE LET d == IF Geq(x, y)
                  THEN DivideBits([hi |-> 0, lo |-> 1], Sub(x, y), y)
                  ELSE DivideBits([hi |-> 0, lo |-> 0], x, y)
         IN  Round(d.q, d.r.hi # 0 \/ d.r.lo # 0,
                   x.e - y.e - (IF Geq(x, y) THEN 52 ELSE 53))

\* x + y: the smaller exponent is brought to the larger one, d bits of the
\* smaller number being shifted out
Plus(x, y) ==
    IF x = Zero THEN y
    ELSE IF y = Zero THEN x
    ELSE LET a == IF x.e >= y.e THEN x ELSE y
             b == IF x.e >= y.e THEN y ELSE x
             d == a.e - b.e
             b2 == Add(b, b)
             shifted ==
                 IF d >= 56 THEN [hi |-> 0, lo |-> 0]
                 ELSE IF d >= 28 THEN [hi |-> 0, lo |-> b2.hi \div 2^(d - 28)]
                 ELSE [hi |-> b2.hi \div 2^d,
                       lo |-> (b2.hi % 2^d) * 2^(28 - d) + b2.lo \div 2^d]
             sticky ==
                 IF d >= 56 THEN TRUE
                 ELSE IF d >= 28 THEN b2.lo # 0 \/ b2.hi % 2^(d - 28) # 0
                 ELSE b2.lo % 2^d # 0
             s == Add(Add(a, a), shifted)
         IN  IF s.hi < 2^26 THEN Round(s, sticky, a.e)
             ELSE Round(Half(s), sticky \/ s.lo % 2 = 1, a.e + 1)

\* x < y
Less(x, y) ==
    IF y = Zero THEN FALSE
    ELSE IF x = Zero THEN TRUE
    ELSE x.e < y.e \/ (x.e = y.e /\ ~Geq(x, y))

\* the number nearest to the decimal n / scale, as parseFloat and JSON.parse
\* give it (n and scale are integers below 2^28, so the division rounds once)
Decimal(n, scale) == Divide(FromInt(n), FromInt(scale))

----------------------------------------------------------------------------
(* Text *)

DigitChars == <<"0", "1", "2", "3", "4", "5", "6", "7", "8", "9">>

IsDigit(c) == \E d \in 1..10 : DigitChars[d] = c

DigitVal(c) == (CHOOSE d \in 1..10 : DigitChars[d] = c) - 1

IsSpace(c) == c \in {" ", "\n", "\t"}

\* Number.prototype.toString for a non-negative integer or NaN
RECURSIVE NumToString(_)
NumToString(n) ==
    IF n = NaN THEN <<"N", "a", "N">>
    ELSE IF n < 10 THEN <<DigitChars[n + 1]>>
    ELSE NumToString(n \div 10) \o <<DigitChars[(n % 10) + 1]>>

\* Array.prototype.join(',') over numbers
RECURSIVE JoinIds(_)
JoinIds(ids) ==
    IF Len(ids) = 0 THEN <<>>
    ELSE IF Len(ids) = 1 THEN NumToString(ids[1])
    ELSE NumToString(ids[1]) \o <<",">> \o JoinIds(Tail(ids))

\* String.prototype.trim
RECURSIVE TrimLeft(_)
TrimLeft(s) == IF Len(s) > 0 /\ IsSpace(s[1]) THEN TrimLeft(Tail(s)) ELSE s

RECURSIVE TrimRight(_)
TrimRight(s) ==
    IF Len(s) > 0 /\ IsSpace(s[Len(s)]) THEN TrimRight(SubSeq(s, 1, Len(s) - 1)) ELSE s

Trim(s) == TrimRight(TrimLeft(s))

\* String.prototype.split(',')
RECURSIVE SplitComma(_)
SplitComma(s) ==
    IF \A i \in 1..Len(s) : s[i] # "," THEN <<s>>
    ELSE LET k == CHOOSE i \in 1..Len(s) :
                      s[i] = "," /\ \A j \in 1..(i - 1) : s[j] # ","
         IN  <<SubSeq(s, 1, k - 1)>> \o SplitComma(SubSeq(s, k + 1, Len(s)))

\* value of a run of decimal digits
RECURSIVE DigitsValue(_)
DigitsValue(s) ==
    IF Len(s) = 0 THEN 0
    ELSE 10 * DigitsValue(SubSeq(s, 1, Len(s) - 1)) + DigitVal(s[Len(s)])

\* the longest prefix of s made of digits
RECURSIVE DigitPrefix(_)
DigitPrefix(s) ==
    IF Len(s) > 0 /\ IsDigit(s[1]) THEN <<s[1]>> \o DigitPrefix(Tail(s)) ELSE <<>>

\* parseInt: leading white space skipped, then the leading digits; NaN if none
ParseInt(s) ==
    LET d == DigitPrefix(TrimLeft(s))
    IN  IF Len(d) = 0 THEN NaN ELSE DigitsValue(d)

\* String.prototype.toLowerCase: a Latin capital becomes its small letter, and
\* every other character of the texts here (small letters, digits, white space,
\* punctuation) is left as it is
SmallLetter ==
    "A" :> "a" @@ "B" :> "b" @@ "C" :> "c" @@ "D" :> "d" @@ "E" :> "e"
    @@ "F" :> "f" @@ "G" :> "g" @@ "H" :> "h" @@ "I" :> "i" @@ "J" :> "j"
    @@ "K" :> "k" @@ "L" :> "l" @@ "M" :> "m" @@ "N" :> "n" @@ "O" :> "o"
    @@ "P" :> "p" @@ "Q" :> "q" @@ "R" :> "r" @@ "S" :> "s" @@ "T" :> "t"
    @@ "U" :> "u" @@ "V" :> "v" @@ "W" :> "w" @@ "X" :> "x" @@ "Y" :> "y"
    @@ "Z" :> "z"

LowerChar(c) == IF c \in DOMAIN SmallLetter THEN SmallLetter[c] ELSE c

ToLowerCase(s) == [i \in 1..Len(s) |-> LowerChar(s[i])]

\* String.prototype.startsWith
StartsWith(s, p) == Len(p) <= Len(s) /\ SubSeq(s, 1, Len(p)) = p

Range(xs) == {xs[i] : i \in 1..Len(xs)}

\* String.prototype.includes
Includes(s, sub) ==
    \E i \in 1..(Len(s) - Len(sub) + 1) : SubSeq(s, i, i + Len(sub) - 1) = sub

----------------------------------------------------------------------------
(* The rated TDP table, manager.ts:10-27 *)

tdp ==
    << [key |-> <<"r", "t", "x", " ", "4", "0", "9", "0">>, watts |-> 450],
       [key |-> <<"r", "t", "x", " ", "4", "0", "8", "0", " ", "s", "u", "p", "e", "r">>, watts |-> 320],
       [key |-> <<"r", "t", "x", " ", "4", "0", "8", "0">>, watts |-> 320],
       [key |-> <<"r", "t", "x", " ", "4", "0", "7", "0", " ", "t", "i", " ", "s", "u", "p", "e", "r">>, watts |-> 285],
       [key |-> <<"r", "t", "x", " ", "4", "0", "7", "0", " ", "t", "i">>, watts |-> 285],
       [key |-> <<"r", "t", "x", " ", "4", "0", "7", "0", " ", "s", "u", "p", "e", "r">>, watts |-> 220],
       [key |-> <<"r", "t", "x", " ", "4", "0", "7", "0">>, watts |-> 200],
       [key |-> <<"r", "t", "x", " ", "4", "0", "6", "0", " ", "t", "i">>, watts |-> 160],
       [key |-> <<"r", "t", "x", " ", "3", "0", "9", "0", " ", "t", "i">>, watts |-> 450],
       [key |-> <<"r", "t", "x", " ", "3", "0", "9", "0">>, watts |-> 350],
       [key |-> <<"r", "t", "x", " ", "3", "0", "8", "0", " ", "t", "i">>, watts |-> 350],
       [key |-> <<"r", "t", "x", " ", "3", "0", "8", "0">>, watts |-> 320],
       [key |-> <<"r", "t", "x", " ", "3", "0", "7", "0", " ", "t", "i">>, watts |-> 290],
       [key |-> <<"r", "t", "x", " ", "3", "0", "7", "0">>, watts |-> 220],
       [key |-> <<"r", "t", "x", " ", "3", "0", "6", "0", " ", "t", "i">>, watts |-> 200],
       [key |-> <<"r", "t", "x", " ", "3", "0", "6", "0">>, watts |-> 170] >>

\* tdp[gpuName]: the rated watts, 0 (falsy, like undefined) for an unknown model
TdpOf(gpuName) ==
    IF \E i \in 1..Len(tdp) : tdp[i].key = gpuName
    THEN tdp[CHOOSE i \in 1..Len(tdp) : tdp[i].key = gpuName].watts
    ELSE 0

----------------------------------------------------------------------------
(* The world: machines on offer, instances, tunnel processes *)

\* What the marketplace has on offer, in the order it returns it (efficiency,
\* descending).  total_flops in 1/10 TFLOPS, dph_total in 1/1000 $/h.  ssh_port
\* is the direct port an instance on that machine is given once it runs.
Catalog ==
    << [id |-> 701, machine_id |-> 7,
        gpu_name |-> <<"R", "T", "X", " ", "4", "0", "9", "0">>, num_gpus |-> 1,
        total_flops |-> 826, dph_total |-> 285, inet_up |-> 500, geolocation |-> "DE",
        public_ipaddr |-> <<"1", "0", ".", "0", ".", "0", ".", "5">>, ssh_port |-> 4022],
       [id |-> 4501, machine_id |-> 45,
        gpu_name |-> <<"R", "T", "X", " ", "4", "0", "9", "0">>, num_gpus |-> 1,
        total_flops |-> 826, dph_total |-> 400, inet_up |-> 500, geolocation |-> "US",
        public_ipaddr |-> <<"1", "0", ".", "0", ".", "0", ".", "7">>, ssh_port |-> 4024],
       [id |-> 1201, machine_id |-> 12,
        gpu_name |-> <<"R", "T", "X", " ", "3", "0", "9", "0">>, num_gpus |-> 1,
        total_flops |-> 353, dph_total |-> 200, inet_up |-> 400, geolocation |-> "US",
        public_ipaddr |-> <<"1", "0", ".", "0", ".", "0", ".", "6", " ">>, ssh_port |-> 4022],
       [id |-> 4601, machine_id |-> 46,
        gpu_name |-> <<"R", "T", "X", " ", "3", "0", "9", "0">>, num_gpus |-> 2,
        total_flops |-> 706, dph_total |-> 400, inet_up |-> 900, geolocation |-> "DE",
        public_ipaddr |-> <<"1", "0", ".", "0", ".", "0", ".", "8">>, ssh_port |-> 4025],
       [id |-> 12301, machine_id |-> 123,
        gpu_name |-> <<"R", "T", "X", " ", "4", "0", "8", "0", " ", "S", "U", "P", "E", "R">>,
        num_gpus |-> 1,
        total_flops |-> 353, dph_total |-> 220, inet_up |-> 300, geolocation |-> "CA",
        public_ipaddr |-> <<"H", "o", "s", "t", ".", "I", "O">>, ssh_port |-> 4023] >>

OfferOf(machineId) == Catalog[CHOOSE i \in 1..Len(Catalog) : Catalog[i].machine_id = machineId]

\* String.prototype.includes on the status messages the marketplace shows
MsgIncludes(msg, pattern) ==
    \/ pattern = "Error response from daemon"
       /\ msg = "Error response from daemon: no such image"
    \/ pattern = "docker: invalid hostPort"
       /\ msg = "docker: invalid hostPort: x"

\* The lifecycle of an instance as the marketplace reports it (InstanceDetail
\* actual_status, status_msg, direct_port_start): the port is assigned or not (0).
Phases ==
    { [actual_status |-> "loading", status_msg |-> "", assigned |-> FALSE],
      [actual_status |-> "loading", status_msg |-> "Error response from daemon: no such image",
       assigned |-> FALSE],
      [actual_status |-> "running", status_msg |-> "", assigned |-> FALSE],
      [actual_status |-> "running", status_msg |-> "", assigned |-> TRUE],
      [actual_status |-> "exited", status_msg |-> "", assigned |-> TRUE] }

PhaseOf(inst) ==
    [actual_status |-> inst.actual_status, status_msg |-> inst.status_msg,
     assigned |-> inst.direct_port_start > 0]

\* the phases an instance in phase ph may show at the next fetch
PhaseNext(ph) ==
    IF ph.actual_status = "loading" /\ ph.status_msg = ""
        THEN {q \in Phases : q.actual_status # "exited"}
    ELSE IF ph.actual_status = "running" /\ ~ph.assigned
        THEN {q \in Phases : q.actual_status = "running"}
    ELSE IF ph.actual_status = "running"
        THEN {q \in Phases : q.assigned}
    ELSE {ph}

\* an InstanceDetail as the marketplace's API returns it (address as stored there)
RawInstance(id, machineId, ph) ==
    [id |-> id, machine_id |-> machineId,
     public_ipaddr |-> OfferOf(machineId).public_ipaddr,
     direct_port_start |-> IF ph.assigned THEN OfferOf(machineId).ssh_port ELSE 0,
     actual_status |-> ph.actual_status, status_msg |-> ph.status_msg,
     gpu_name |-> OfferOf(machineId).gpu_name]

WithPhase(inst, ph) == RawInstance(inst.id, inst.machine_id, ph)

RunningPhase == [actual_status |-> "running", status_msg |-> "", assigned |-> TRUE]
LoadingPhase == [actual_status |-> "loading", status_msg |-> "", assigned |-> FALSE]

\* the address as getInstances / getInstance leave it: trim().toLowerCase()
NormalizeAddr(addr) == IF Len(addr) > 0 THEN ToLowerCase(Trim(addr)) ELSE addr

NormalizeInstance(inst) ==
    [inst EXCEPT !.public_ipaddr = NormalizeAddr(inst.public_ipaddr)]

\* session.sshTunnel === undefined
NoTunnel == [pid |-> 0, tunnelPort |-> 0, port |-> 0, host |-> <<>>]

HasTunnel(session) == session.sshTunnel # NoTunnel

\* an autossh process as spawned at manager.ts:283-288
TunnelProc(pid, tunnelPort, inst) ==
    [pid |-> pid, tunnelPort |-> tunnelPort, port |-> inst.direct_port_start,
     host |-> inst.public_ipaddr]

\* One line of `ps -C autossh -o pid=,cmd=` as the four regular expressions of
\* updateSessions see it: the first integer, the text after root@, the integer
\* after "-p ", the integer inside "-L 0.0.0.0:<n>:"; NaN or <<>> where the
\* expression does not match.
PsLine(proc) ==
    [pid |-> proc.pid, host |-> proc.host, p |-> proc.port, L |-> proc.tunnelPort]

\* lines of autossh processes that were not started the way manager.ts:283 does:
\* no root@ login, no -p flag, a -L without the 0.0.0.0 bind address
ForeignLines ==
    << [pid |-> 99, host |-> <<>>, p |-> 22, L |-> 10009],
       [pid |-> 99, host |-> <<"h">>, p |-> NaN, L |-> 10009],
       [pid |-> 99, host |-> <<"h">>, p |-> 22, L |-> NaN] >>

\* the pid the operating system gives the next process: the lowest one not live
FreshPid(ps) == CHOOSE n \in 1..(Len(ps) + 1) : \A i \in 1..Len(ps) : ps[i].pid # n

----------------------------------------------------------------------------
(* Session Reconciler: updateSessions, manager.ts:295-361 *)

\* the parsing without the checks that each expression matched
ParseTunnelUnchecked(line) ==
    [ok |-> TRUE,
     tunnel |-> [pid |-> line.pid, tunnelPort |-> line.L, port |-> line.p,
                 host |-> line.host]]

\* manager.ts:310-342, one line: the tunnel it describes, or the throw
ParseTunnel(line) ==
    [ok |-> line.pid # NaN /\ line.host # <<>> /\ line.p # NaN /\ line.L # NaN,
     tunnel |-> [pid |-> line.pid, tunnelPort |-> line.L, port |-> line.p,
                 host |-> line.host]]

\* the comparison of the remote port alone
MatchesPort(tunnel, inst) == inst.direct_port_start = tunnel.port

\* manager.ts:346 and 353: the tunnel is the one of this instance
Matches(tunnel, inst) ==
    inst.public_ipaddr = tunnel.host /\ inst.direct_port_start = tunnel.port

\* manager.ts:346
IsOrphan(tunnel, sess) == ~\E i \in 1..Len(sess) : Matches(tunnel, sess[i].instance)

\* manager.ts:353-357: the first tunnel of the list that matches, if any
AttachTunnel(session, tunnels) ==
    IF \E i \in 1..Len(tunnels) : Matches(tunnels[i], session.instance)
    THEN [session EXCEPT !.sshTunnel =
             tunnels[CHOOSE i \in 1..Len(tunnels) :
                        /\ Matches(tunnels[i], session.instance)
                        /\ \A j \in 1..(i - 1) : ~Matches(tunnels[j], session.instance)]]
    ELSE session

\* updateSessions on the listed instances and the ps lines: whether it returned
\* (ok) or threw, the pids it killed in order, and the sessions it built
Reconcile(instances, lines) ==
    LET fresh == [i \in 1..Len(instances) |->
                     [instance |-> instances[i], sshTunnel |-> NoTunnel]]
        ok == \A i \in 1..Len(lines) : ParseTunnel(lines[i]).ok
        tunnels == IF ok THEN [i \in 1..Len(lines) |-> ParseTunnel(lines[i]).tunnel]
                   ELSE <<>>
        orphans == SelectSeq(tunnels, LAMBDA t : IsOrphan(t, fresh))
    IN  [ok |-> ok,
         kills |-> [i \in 1..Len(orphans) |-> orphans[i].pid],
         sessions |-> [i \in 1..Len(fresh) |-> AttachTunnel(fresh[i], tunnels)]]

\* an outward call: the operation, its main argument, and a list where it has one
Call(op, arg) == [op |-> op, arg |-> arg, list |-> <<>>]

\* What the world did since the manager last looked, as one updateSessions sees
\* it: the listing call failing, the phase each listed instance now shows, the
\* tunnel processes that died, a foreign autossh line (0: none), the live
\* tunnel processes the output of ps does not show.
Quiet(mkt) ==
    [fail |-> FALSE, phases |-> [i \in 1..Len(mkt) |-> PhaseOf(mkt[i])],
     dead |-> {}, junk |-> 0, hidden |-> {}]

WorldInputs(mkt, ps) ==
    {[Quiet(mkt) EXCEPT !.phases = ph, !.dead = d] :
        ph \in {f \in [1..Len(mkt) -> Phases] :
                   \A i \in 1..Len(mkt) : f[i] \in PhaseNext(PhaseOf(mkt[i]))},
        d \in {{}} \cup {{ps[i].pid} : i \in 1..Len(ps)}}
    \cup {[Quiet(mkt) EXCEPT !.fail = TRUE]}
    \cup {[Quiet(mkt) EXCEPT !.junk = k] : k \in 1..Len(ForeignLines)}

\* what the world may show the updateSessions that opens a cycle
ListingInputs == IF pc # "updateSessions" THEN {} ELSE WorldInputs(market, procs)

\* updateSessions under w, run on the listing mkt, the processes ps and the
\* session list sess: the new session list (the old one if it threw), the world
\* after it, and the calls it made
UpdateSessionsOn(mkt, ps, sess, w) ==
    LET m2 == [i \in 1..Len(mkt) |-> WithPhase(mkt[i], w.phases[i])]
        p2 == SelectSeq(ps, LAMBDA p : p.pid \notin w.dead)
        shown == SelectSeq(p2, LAMBDA p : p.pid \notin w.hidden)
        lines == [i \in 1..Len(shown) |-> PsLine(shown[i])]
                    \o (IF w.junk = 0 THEN <<>> ELSE <<ForeignLines[w.junk]>>)
        r == Reconcile([i \in 1..Len(m2) |-> NormalizeInstance(m2[i])], lines)
        threw == w.fail \/ ~r.ok
        kills == IF threw THEN <<>> ELSE r.kills
    IN  [threw |-> threw,
         sessions |-> IF threw THEN sess ELSE r.sessions,
         market |-> m2,
         procs |-> SelectSeq(p2, LAMBDA p : \A i \in 1..Len(kills) : kills[i] # p.pid),
         calls |-> <<[op |-> "getInstances", arg |-> 0,
                      list |-> IF w.fail THEN <<>> ELSE [i \in 1..Len(m2) |-> m2[i].id]]>>
                     \o (IF w.fail THEN <<>>
                         ELSE <<[op |-> "ps", arg |-> 0, list |-> lines]>>)
                     \o [i \in 1..Len(kills) |-> Call("kill", kills[i])]]

----------------------------------------------------------------------------
(* Fleet Controller: run, manager.ts:41-65 *)

\* the content of throttled_ips.txt
ThrottledFile == <<"1", "0", ".", "0", ".", "0", ".">>

\* manager.ts:47
LoadBlocked(file) ==
    LET parts == SplitComma(Trim(file)) IN [i \in 1..Len(parts) |-> ParseInt(parts[i])]

\* manager.ts:67-73
LoadThrottledIPs(file) == SplitComma(Trim(file))

InstanceIds == 1..MaxInstanceId

\* the worlds the manager may be started in
InitWorlds ==
    LET i1 == RawInstance(1, 123, RunningPhase)
        i2 == RawInstance(2, 12, RunningPhase)
        i3 == RawInstance(3, 7, RunningPhase)
        t1 == TunnelProc(1, TunnelPortBase + 1, NormalizeInstance(i1))
        t2 == TunnelProc(2, TunnelPortBase + 2, NormalizeInstance(i2))
    IN  { [market |-> <<>>, procs |-> <<>>],
          [market |-> <<i1>>, procs |-> <<t1>>],
          [market |-> <<i1, i2, i3>>, procs |-> <<t1, t2>>] }

Init ==
    /\ pc = "start"
    /\ mi = 1
    /\ max3090Price = MAX_3090_PRICE
    /\ blockedMachineIDs = <<>>
    /\ throttledIPs = <<>>
    /\ sessions = <<>>
    /\ usage = [id \in InstanceIds |-> <<>>]
    /\ blockedFile = <<>>
    /\ \E w \in InitWorlds :
          /\ market = w.market
          /\ procs = w.procs
          /\ nextId = Len(w.market) + 1
    /\ calls = <<>>
    /\ everBlocked = {}
    /\ pushed = [id \in InstanceIds |-> <<>>]
    /\ reloaded = FALSE
    /\ evicted = <<>>

\* manager.ts:42-56: load the blocklist and the throttled prefixes, file being
\* the content of throttled_ips.txt
StartOn(file) ==
    /\ pc = "start"
    /\ blockedMachineIDs' = LoadBlocked(blockedFile)
    /\ throttledIPs' = LoadThrottledIPs(file)
    /\ pc' = "updateSessions"
    /\ calls' = <<Call("readFile", 0)>>
    /\ reloaded' = (Range(LoadBlocked(blockedFile)) \ {NaN} # {})
    /\ UNCHANGED <<mi, sessions, usage, blockedFile, market, nextId, procs,
                   everBlocked, pushed, max3090Price, evicted>>

Start == StartOn(ThrottledFile)

\* manager.ts:58: the reconciliation that opens a cycle
UpdateSessions(w) ==
    /\ pc = "updateSessions"
    /\ \E r \in {UpdateSessionsOn(market, procs, sessions, w)} :
           /\ sessions' = r.sessions
           /\ market' = r.market
           /\ procs' = r.procs
           /\ calls' = r.calls
           /\ pc' = IF r.threw THEN "stopped" ELSE "createNewInstance"
    /\ UNCHANGED <<mi, blockedMachineIDs, throttledIPs, usage, blockedFile, nextId,
                   everBlocked, pushed, reloaded, max3090Price, evicted>>

----------------------------------------------------------------------------
(* Marketplace client: getOffers, part_001:89-146, with the marketplace's answer *)

\* the query's floors (constructor defaults, part_001:18 and 21); tflops in 1/10
inetUp == 400
tflops == 200

Machines == {Catalog[i].machine_id : i \in 1..Len(Catalog)}

Rented(machineId) == \E i \in 1..Len(market) : market[i].machine_id = machineId

\* getOffers called without its argument: the default parameter, an empty list
GetOffersDefault(blockedIDs, avail) ==
    SelectSeq(Catalog, LAMBDA o :
        /\ o.machine_id \in avail
        /\ ~Rented(o.machine_id)
        /\ o.inet_up >= inetUp
        /\ o.total_flops >= tflops)

\* The offers the marketplace returns for the query getOffers sends: of the
\* machines it has free just now (avail), those that are not rented, meet the
\* floors and are not in the machine_id "notin" list, in its own order.
GetOffers(blockedIDs, avail) ==
    SelectSeq(Catalog, LAMBDA o :
        /\ o.machine_id \in avail
        /\ ~Rented(o.machine_id)
        /\ o.inet_up >= inetUp
        /\ o.total_flops >= tflops
        /\ o.machine_id \notin Range(blockedIDs))

----------------------------------------------------------------------------
(* Acquisition Engine: createNewInstance, manager.ts:158-201 *)

\* manager.ts:163-165, the two sides of the comparison: total_flops / dph_total,
\* and 82.6 / (max3090Price / 0.6) for a 4090, 35.3 / max3090Price otherwise
\* (total_flops in 1/10, the prices in 1/1000 $/h)
Ratio(total_flops, dph_total) ==
    Divide(Decimal(total_flops, 10), Decimal(dph_total, 1000))

Threshold(gpu_name, price) ==
    IF Includes(gpu_name, <<"4", "0", "9", "0">>)
    THEN Divide(Decimal(826, 10), Divide(Decimal(price, 1000), Decimal(6, 10)))
    ELSE Divide(Decimal(353, 10), Decimal(price, 1000))

\* the comparison for the offers of the catalogue under the ceilings above,
\* computed once
PriceTable ==
    [k \in {<<Catalog[i].gpu_name, Catalog[i].total_flops, Catalog[i].dph_total, p>> :
               i \in 1..Len(Catalog), p \in PriceCeilings \cup {MAX_3090_PRICE}}
        |-> Less(Threshold(k[1], k[4]), Ratio(k[2], k[3]))]

\* manager.ts:163-165
PriceOk(offer) ==
    LET k == <<offer.gpu_name, offer.total_flops, offer.dph_total, max3090Price>>
    IN  IF k \in DOMAIN PriceTable THEN PriceTable[k]
        ELSE Less(Threshold(offer.gpu_name, max3090Price),
                  Ratio(offer.total_flops, offer.dph_total))

\* manager.ts:166 (inet_up > 5 * total_flops, total_flops in 1/10)
NetworkOk(offer) == 10 * offer.inet_up > 5 * offer.total_flops

\* manager.ts:167
GeoOk(offer) ==
    offer.num_gpus <= 1 \/ offer.geolocation = "US" \/ offer.geolocation = "CA"

\* manager.ts:168-174: the first throttled prefix the offer's address starts
\* with decides; an empty prefix is falsy
ThrottleOk(offer, throttled, sess) ==
    LET hits == {i \in 1..Len(throttled) : StartsWith(offer.public_ipaddr, throttled[i])}
        found == IF hits = {} THEN <<>>
                 ELSE throttled[CHOOSE i \in hits : \A j \in hits : i <= j]
    IN  IF found = <<>> THEN TRUE
        ELSE ~\E k \in 1..Len(sess) : StartsWith(sess[k].instance.public_ipaddr, found)

\* manager.ts:162-174: the filter pipeline, order kept
SurvivingOffers(offers, throttled, sess) ==
    SelectSeq(offers, LAMBDA o :
        PriceOk(o) /\ NetworkOk(o) /\ GeoOk(o) /\ ThrottleOk(o, throttled, sess))

CreateOutcomes == {"ok", "refused", "gone", "error"}

\* the loop counting from zero instead of from the number of sessions
CapacityFromZero(sess) == IF Len(sess) >= maxSessions THEN 0 ELSE maxSessions

\* manager.ts:179: how many offers the loop may take
Capacity(sess) == IF Len(sess) >= maxSessions THEN 0 ELSE maxSessions - Len(sess)

Min(a, b) == IF a <= b THEN a ELSE b

\* createNewInstance under the marketplace's answers in: whether getOffers
\* failed, the machines free, and the outcome of the k-th creation request
\* (ok; refused: success false; gone: a 410/404 error; error: any other error)
CreateNewInstanceResult(in) ==
    LET full == Len(sessions) >= maxSessions
        returned == IF full \/ in.offersFail THEN <<>>
                    ELSE GetOffers(blockedMachineIDs, in.avail)
        request(offers) ==
            LET lim == Min(Capacity(sessions), Len(offers))
                bad == {k \in 1..lim : in.outcome[k] # "ok"}
                attempts == IF bad = {} THEN lim
                            ELSE CHOOSE k \in bad : \A j \in bad : k <= j
                made == IF bad = {} THEN attempts ELSE attempts - 1
            IN  [threw |-> ~full /\ (in.offersFail
                                       \/ (bad # {} /\ in.outcome[attempts] = "error")),
                 market |-> market \o
                            [k \in 1..made |->
                                RawInstance(nextId + k - 1, offers[k].machine_id,
                                            LoadingPhase)],
                 nextId |-> nextId + made,
                 calls |-> (IF full THEN <<>>
                            ELSE <<[op |-> "getOffers", arg |-> 0,
                                    list |-> [k \in 1..Len(returned) |-> returned[k].id]]>>)
                           \o [k \in 1..attempts |-> Call("createInstance", offers[k].id)]]
    IN  request(SurvivingOffers(returned, throttledIPs, sessions))

\* the answers the marketplace may give one createNewInstance
CreateInputs ==
    IF pc # "createNewInstance" THEN {}
    ELSE
    {in \in [offersFail : BOOLEAN, avail : {Machines, {}},
             outcome : [1..maxSessions -> CreateOutcomes]] :
        /\ in.offersFail => (in.avail = {} /\ \A k \in 1..maxSessions : in.outcome[k] = "ok")
        /\ \A k \in 1..maxSessions : in.outcome[k] = "ok" => nextId + k - 1 <= MaxInstanceId}

\* manager.ts:60
CreateNewInstance(in) ==
    /\ pc = "createNewInstance"
    /\ \E r \in {CreateNewInstanceResult(in)} :
           /\ market' = r.market
           /\ nextId' = r.nextId
           /\ calls' = r.calls
           /\ pc' = IF r.threw THEN "stopped" ELSE "createTunnels"
    /\ UNCHANGED <<mi, blockedMachineIDs, throttledIPs, sessions, usage, blockedFile,
                   procs, everBlocked, pushed, reloaded, max3090Price, evicted>>

----------------------------------------------------------------------------
(* Eviction: addBlockedMachine, blockAndTerminate, manager.ts:152-156, 203-207 *)

\* The effects of a handler step so far: the blocklist in memory and on disk,
\* the marketplace's listing, the calls made, whether an error was thrown, and
\* how many termination requests were sent.
Effects ==
    [blockedMachineIDs |-> blockedMachineIDs, blockedFile |-> blockedFile,
     market |-> market, everBlocked |-> everBlocked, calls |-> <<>>,
     threw |-> FALSE, terms |-> 0]

\* the blocklist replaced by the new id instead of extended by it
AddBlockedMachineOnly(e, id) ==
    [e EXCEPT !.blockedMachineIDs = <<id>>,
              !.blockedFile = JoinIds(<<id>>),
              !.everBlocked = @ \cup {id},
              !.calls = Append(@, Call("writeFile", id))]

\* manager.ts:152-156
AddBlockedMachine(e, id) ==
    [e EXCEPT !.blockedMachineIDs = Append(@, id),
              !.blockedFile = JoinIds(Append(e.blockedMachineIDs, id)),
              !.everBlocked = @ \cup {id},
              !.calls = Append(@, Call("writeFile", id))]

\* part_001:43-47 with the marketplace's answer: the failAt-th termination
\* request of the step fails (0: none does) and is logged with the error as
\* its answer; a request that succeeds takes the instance off the listing
TerminateInstance(e, id, failAt) ==
    IF e.threw THEN e
    ELSE [e EXCEPT !.terms = @ + 1,
                   !.calls = Append(@, [op |-> "terminateInstance", arg |-> id,
                                        list |-> IF e.terms + 1 = failAt
                                                 THEN <<"error">> ELSE <<>>]),
                   !.threw = (e.terms + 1 = failAt),
                   !.market = IF e.terms + 1 = failAt THEN @
                              ELSE SelectSeq(@, LAMBDA m : m.id # id)]

\* manager.ts:203-207
BlockAndTerminate(e, inst, failAt) ==
    IF e.threw THEN e
    ELSE TerminateInstance(AddBlockedMachine(e, inst.machine_id), inst.id, failAt)

\* logger.warn at a point of monitor (manager.ts:88, 102, 119, 125)
Warn(e, what, id) == IF e.threw THEN e ELSE [e EXCEPT !.calls = Append(@, Call(what, id))]

\* the runs of blockAndTerminate among the calls of a step of the given phase:
\* one per blocklist write, with the instance whose termination it requests
Evictions(phase, cs) ==
    LET ws == {k \in 1..Len(cs) : cs[k].op = "writeFile"}
        nth(n) == CHOOSE k \in ws : Cardinality({j \in ws : j <= k}) = n
    IN  [n \in 1..Cardinality(ws) |-> [phase |-> phase, id |-> cs[nth(n) + 1].arg]]

----------------------------------------------------------------------------
(* Tunnel Provisioner: createTunnels, manager.ts:209-293 *)

\* p-retry budgets: retries + 1 attempts (manager.ts:228 and 260)
PollAttempts == 11
VerifyAttempts == 4

\* manager.ts:210-211
TunnelLess(sess) == {i \in 1..Len(sess) : ~HasTunnel(sess[i])}

FirstTunnelLess(sess) == CHOOSE i \in TunnelLess(sess) : \A j \in TunnelLess(sess) : i <= j

\* the ready test without the test of the port
PollReadyAnyPort(inst) == inst.actual_status = "running"

\* manager.ts:218
PollReady(inst) == inst.actual_status = "running" /\ inst.direct_port_start > 0

\* manager.ts:221-222
PollFatal(inst) ==
    \/ MsgIncludes(inst.status_msg, "Error response from daemon")
    \/ MsgIncludes(inst.status_msg, "docker: invalid hostPort")

\* manager.ts:253, on the words of the output of the remote `ps aux`
WorkloadShown(stdout) == \E i \in 1..Len(stdout) : stdout[i] = "-gpuServer"

\* the allocation without the check of the ports in use
AllocPortUnchecked(sess) == TunnelPortBase + 1

\* the allocation scanning the range downwards
AllocPortHighest(sess) ==
    LET range == (TunnelPortBase + 1)..(maxSessions + TunnelPortBase)
        free == {i \in range : \A k \in 1..Len(sess) : sess[k].sshTunnel.tunnelPort # i}
    IN  IF free = {} THEN 0 ELSE CHOOSE i \in free : \A j \in free : i >= j

\* manager.ts:269-276: the lowest port of the range no session's tunnel holds, 0
\* if there is none
AllocPort(sess) ==
    LET range == (TunnelPortBase + 1)..(maxSessions + TunnelPortBase)
        free == {i \in range : \A k \in 1..Len(sess) : sess[k].sshTunnel.tunnelPort # i}
    IN  IF free = {} THEN 0 ELSE CHOOSE i \in free : \A j \in free : i <= j

\* the phases an instance may have reached after several fetches
RECURSIVE PhaseReach(_, _)
PhaseReach(phs, n) ==
    IF n = 0 THEN phs ELSE PhaseReach(UNION {PhaseNext(ph) : ph \in phs}, n - 1)

\* What the world answers during one pass of the loop of createTunnels:
\*   n, final, abort  the readiness polling makes n fetches, the last one shows
\*                    phase final (the earlier ones are not ready, not fatal:
\*                    the phase the session already shows);
\*                    abort: the first fetch fails with an error that ends
\*                    p-retry at once
\*   ssh              the attempt of `ps aux` that shows -gpuServer (0: none)
\*   failAt           as for TerminateInstance
\*   w                what the closing updateSessions sees
CreateTunnelsResult(in) ==
    LET idx == FirstTunnelLess(sessions)
        old == sessions[idx].instance
        inst == IF in.abort THEN old
                ELSE NormalizeInstance(WithPhase(old, in.final))
        sess1 == [sessions EXCEPT ![idx].instance = inst]
        fetched == [k \in 1..in.n |->
                       [op |-> "getInstance", arg |-> old.id,
                        list |-> IF in.abort THEN <<>>
                                 ELSE IF k < in.n THEN <<PhaseOf(old)>>
                                 ELSE <<in.final>>]]
        e0 == [Effects EXCEPT
                  !.calls = fetched,
                  !.market = [k \in 1..Len(market) |->
                                 IF market[k].id = old.id /\ ~in.abort
                                 THEN WithPhase(market[k], in.final) ELSE market[k]]]
        pollFailed == in.abort \/ ~PollReady(inst)
        sshCalls == IF in.ssh = 0 THEN VerifyAttempts ELSE in.ssh
        e1 == [e0 EXCEPT !.calls = @ \o
                  [k \in 1..sshCalls |->
                      [op |-> "ssh ps aux", arg |-> old.id,
                       list |-> IF k = in.ssh THEN <<"-gpuServer">> ELSE <<>>]]]
        port == AllocPort(sess1)
        spawned == Append(procs, TunnelProc(FreshPid(procs), port, inst))
        base == [sessions |-> sess1, procs |-> procs, loop |-> FALSE]
    IN  IF pollFailed
            THEN base @@ BlockAndTerminate(e0, inst, in.failAt)
        ELSE IF in.ssh = 0
            THEN base @@ BlockAndTerminate(e1, inst, in.failAt)
        ELSE IF port = 0
            THEN base @@ [e1 EXCEPT !.threw = TRUE]
        ELSE [sessions |-> sess1, procs |-> spawned, loop |-> TRUE]
                 @@ [e1 EXCEPT !.calls = Append(@, Call("autossh", port))]

\* where run() is after createTunnels, and after the i-1 first sessions of the
\* loop of monitor
MonitorPc(i) == IF i > Len(sessions) THEN "sleep" ELSE "monitor"

AfterSpawn == {"seen", "died", "fail", "junk"}

\* what the updateSessions that closes a pass sees: the new tunnel process, or
\* not (it died), or a failing listing call, or a foreign autossh line, or not
\* yet the new process although it lives (late)
AfterWorld(mkt, ps, after) ==
    [Quiet(mkt) EXCEPT !.fail = (after = "fail"),
                       !.dead = IF after = "died" THEN {ps[Len(ps)].pid} ELSE {},
                       !.junk = IF after = "junk" THEN 3 ELSE 0,
                       !.hidden = IF after = "late" THEN {ps[Len(ps)].pid} ELSE {}]

NoAnswers ==
    [n |-> 0, final |-> LoadingPhase, abort |-> FALSE, ssh |-> 0, failAt |-> 0,
     after |-> "seen"]

\* the answers the world may give one pass of the loop
CreateTunnelsInputs ==
    IF pc # "createTunnels" THEN {}
    ELSE IF TunnelLess(sessions) = {} THEN {NoAnswers}
    ELSE
    LET old == sessions[FirstTunnelLess(sessions)].instance
        cur == PhaseOf(old)
        waiting == ~PollReady(old) /\ ~PollFatal(old)
        decided(ph) == PollReady(WithPhase(old, ph)) \/ PollFatal(WithPhase(old, ph))
        polls == {[NoAnswers EXCEPT !.n = n, !.final = ph] :
                     n \in {1, 2, PollAttempts}, ph \in PhaseReach({cur}, 2)}
        okPolls == {q \in polls :
                       /\ q.n > 1 => waiting
                       /\ q.n < PollAttempts => decided(q.final)}
        room == Len(blockedMachineIDs) < MaxBlocked
    IN  {in \in {[q EXCEPT !.ssh = v, !.failAt = f, !.after = a] :
                    q \in okPolls \cup {[NoAnswers EXCEPT !.n = 1, !.final = cur,
                                                         !.abort = TRUE]},
                    v \in 0..2, f \in 0..1, a \in AfterSpawn} :
            LET ready == ~in.abort /\ PollReady(WithPhase(old, in.final))
                evicts == ~ready \/ in.ssh = 0
            IN  /\ ~ready => in.ssh = 0
                /\ evicts => room /\ in.after = "seen"
                /\ ~evicts => in.failAt = 0}

\* manager.ts:61, one pass of the while loop (or its exit)
CreateTunnels(in) ==
    /\ pc = "createTunnels"
    /\ IF TunnelLess(sessions) = {}
       THEN /\ pc' = MonitorPc(1)
            /\ mi' = 1
            /\ calls' = <<>>
            /\ UNCHANGED <<blockedMachineIDs, sessions, blockedFile, market, procs,
                           everBlocked, evicted>>
       ELSE \E r \in {CreateTunnelsResult(in)} :
            \E u \in {UpdateSessionsOn(r.market, r.procs, r.sessions,
                                       AfterWorld(r.market, r.procs, in.after))} :
                /\ blockedMachineIDs' = r.blockedMachineIDs
                /\ blockedFile' = r.blockedFile
                /\ everBlocked' = r.everBlocked
                /\ evicted' = evicted \o Evictions("createTunnels", r.calls)
                /\ mi' = 1
                /\ IF r.loop
                   THEN /\ sessions' = u.sessions
                        /\ market' = u.market
                        /\ procs' = u.procs
                        /\ calls' = r.calls \o u.calls
                        /\ pc' = IF u.threw THEN "stopped" ELSE "createTunnels"
                   ELSE /\ sessions' = r.sessions
                        /\ market' = r.market
                        /\ procs' = r.procs
                        /\ calls' = r.calls
                        /\ pc' = IF r.threw THEN "stopped"
                                 ELSE IF Len(r.sessions) = 0 THEN "sleep" ELSE "monitor"
    /\ UNCHANGED <<throttledIPs, usage, nextId, pushed, reloaded, max3090Price>>

----------------------------------------------------------------------------
(* Health Monitor: monitor, manager.ts:75-129 *)

\* A line of the telemetry output after split('\n'), as monitor reads it: the
\* number of comma-separated cells, the two numbers parseFloat gives (watts),
\* and whether it holds 'Unable to determine the device handle'.
GpuLine(power, limit) == [cells |-> 2, power |-> power, limit |-> limit, down |-> FALSE]
DownLine == [cells |-> 1, power |-> 0, limit |-> 0, down |-> TRUE]
BlankLine == [cells |-> 1, power |-> 0, limit |-> 0, down |-> FALSE]

\* manager.ts:87
GpuDown(stdout) == \E i \in 1..Len(stdout) : stdout[i].down

\* manager.ts:100-101
Underpowered(gpuName, line) ==
    TdpOf(ToLowerCase(gpuName)) # 0 /\ TdpOf(ToLowerCase(gpuName)) > line.limit

\* power / limit for the GPU lines of the telemetry outputs below, computed once
UtilizationTable ==
    [l \in {GpuLine(420, 480), GpuLine(60, 480), GpuLine(250, 300)}
        |-> Divide(FromInt(l.power), FromInt(l.limit))]

\* manager.ts:98-99 and 106: parseFloat of the two cells (whole watts), and
\* power / limit
Utilization(line) ==
    IF line \in DOMAIN UtilizationTable THEN UtilizationTable[line]
    ELSE Divide(FromInt(line.power), FromInt(line.limit))

\* manager.ts:93-107: the utilizations collected, and whether the loop broke on
\* an underpowered GPU
\* the scan going on after an underpowered GPU (no break)
RECURSIVE ScanGpusOn(_, _, _)
ScanGpusOn(gpuName, lines, acc) ==
    IF Len(lines) = 0 THEN [utilizations |-> acc, underpowered |-> FALSE]
    ELSE IF Head(lines).cells # 2 THEN ScanGpusOn(gpuName, Tail(lines), acc)
    ELSE LET rest == ScanGpusOn(gpuName, Tail(lines),
                                Append(acc, Utilization(Head(lines))))
         IN  [rest EXCEPT !.underpowered = @ \/ Underpowered(gpuName, Head(lines))]

RECURSIVE ScanGpus(_, _, _)
ScanGpus(gpuName, lines, acc) ==
    IF Len(lines) = 0 THEN [utilizations |-> acc, underpowered |-> FALSE]
    ELSE IF Head(lines).cells # 2 THEN ScanGpus(gpuName, Tail(lines), acc)
    ELSE IF Underpowered(gpuName, Head(lines))
        THEN [utilizations |-> acc, underpowered |-> TRUE]
    ELSE ScanGpus(gpuName, Tail(lines), Append(acc, Utilization(Head(lines))))

\* manager.ts:111 and 117, reduce((a, b) => a + b, 0): the first n numbers
\* added from the left
RECURSIVE Sum(_, _)
Sum(xs, n) == IF n = 0 THEN Zero ELSE Plus(Sum(xs, n - 1), xs[n])

\* manager.ts:111 and 117
Average(xs) == Divide(Sum(xs, Len(xs)), FromInt(Len(xs)))

\* the window dropping its newest sample (pop) instead of its oldest (shift)
PushUsagePop(hist, sample) ==
    LET h == Append(hist, sample)
    IN  IF Len(h) > UsageWindow THEN SubSeq(h, 1, Len(h) - 1) ELSE h

\* manager.ts:112-116
PushUsage(hist, sample) ==
    LET h == Append(hist, sample)
    IN  IF Len(h) > UsageWindow THEN Tail(h) ELSE h

\* the verdict from 30 samples on instead of from 31
UnderutilizedFrom30(hist) ==
    /\ Len(hist) >= UsageMinSamples
    /\ Less(Average(hist), Decimal(utilizationThreshold, 1000))

\* manager.ts:117-118
Underutilized(hist) ==
    /\ Len(hist) > UsageMinSamples
    /\ Less(Average(hist), Decimal(utilizationThreshold, 1000))

\* One pass of the for-loop of monitor over session s, given the telemetry
\* output and failAt (as for TerminateInstance): the effects and the new usage.
MonitorSessionResult(s, in) ==
    LET inst == s.instance
        e0 == [Effects EXCEPT
                  !.calls = <<[op |-> "nvidia-smi", arg |-> inst.id, list |-> in.stdout]>>]
        e1 == IF GpuDown(in.stdout)
              THEN BlockAndTerminate(Warn(e0, "warn: GPU is down", inst.id), inst, in.failAt)
              ELSE e0
        \* manager.ts:117-127, the window being hist
        verdict(e2, sample, hist) ==
            LET e3 == IF sample # <<>> /\ Underutilized(hist)
                      THEN BlockAndTerminate(Warn(e2, "warn: underutilized", inst.id),
                                             inst, in.failAt)
                      ELSE e2
                e4 == IF inst.actual_status = "exited"
                      THEN TerminateInstance(Warn(e3, "warn: exited", inst.id),
                                             inst.id, in.failAt)
                      ELSE e3
            IN  [usage |-> [usage EXCEPT ![inst.id] = hist], sample |-> sample] @@ e4
        \* manager.ts:108-116, the sample of the pass being sample
        push(e2, sample) ==
            verdict(e2, sample,
                    IF sample # <<>> THEN PushUsage(usage[inst.id], sample[1])
                    ELSE usage[inst.id])
        \* manager.ts:93-111, the scan of the GPU lines being scan
        average(scan) ==
            LET e2 == IF scan.underpowered
                      THEN BlockAndTerminate(Warn(e1, "warn: underpowered", inst.id),
                                             inst, in.failAt)
                      ELSE e1
            IN  push(e2, IF ~e2.threw /\ Len(scan.utilizations) > 0
                         THEN <<Average(scan.utilizations)>> ELSE <<>>)
    IN  IF ~HasTunnel(s)
        THEN [usage |-> usage, sample |-> <<>>] @@ Effects
        ELSE average(ScanGpus(inst.gpu_name, in.stdout, <<>>))

\* telemetry outputs: nothing; one GPU at 7/8 and at 1/8 of a 480 W limit; the
\* GPU cannot be queried; that and a second GPU at 7/8; a GPU limited to 300 W;
\* the second of three GPUs limited to 300 W; cannot be queried and limited
Stdouts ==
    { <<BlankLine>>,
      <<GpuLine(420, 480)>>,
      <<GpuLine(60, 480)>>,
      <<DownLine>>,
      <<DownLine, GpuLine(420, 480)>>,
      <<GpuLine(250, 300)>>,
      <<GpuLine(420, 480), GpuLine(250, 300), GpuLine(60, 480)>>,
      <<DownLine, GpuLine(250, 300)>> }

\* The answers the world may give one pass of monitor.  Here the telemetry
\* yields no utilization sample (the sliding window is followed in SpecUsage).
MonitorInputs ==
    IF pc # "monitor" THEN {}
    ELSE IF mi > Len(sessions) \/ ~HasTunnel(sessions[mi])
    THEN {[stdout |-> <<BlankLine>>, failAt |-> 0]}
    ELSE {in \in [stdout : Stdouts, failAt : 0..4] :
            /\ ScanGpus(sessions[mi].instance.gpu_name, in.stdout, <<>>).utilizations = <<>>
            /\ \E r \in {MonitorSessionResult(sessions[mi], [in EXCEPT !.failAt = 0])} :
                /\ in.failAt <= r.terms
                /\ Len(r.blockedMachineIDs) <= MaxBlocked
                /\ r.sample = <<>>}

\* manager.ts:62, one pass of the for-loop
MonitorSession(in) ==
    /\ pc = "monitor"
    /\ mi <= Len(sessions)
    /\ \E r \in {MonitorSessionResult(sessions[mi], in)} :
           /\ blockedMachineIDs' = r.blockedMachineIDs
           /\ blockedFile' = r.blockedFile
           /\ everBlocked' = r.everBlocked
           /\ evicted' = evicted \o Evictions("monitor", r.calls)
           /\ market' = r.market
           /\ usage' = r.usage
           /\ pushed' = [pushed EXCEPT ![sessions[mi].instance.id] = @ \o r.sample]
           /\ calls' = r.calls
           /\ mi' = mi + 1
           /\ pc' = IF r.threw THEN "stopped" ELSE MonitorPc(mi + 1)
    /\ UNCHANGED <<throttledIPs, sessions, nextId, procs, reloaded, max3090Price>>

\* manager.ts:63
Sleep ==
    /\ pc = "sleep"
    /\ pc' = "updateSessions"
    /\ calls' = <<>>
    /\ evicted' = <<>>
    /\ UNCHANGED <<mi, blockedMachineIDs, throttledIPs, sessions, usage, blockedFile,
                   market, nextId, procs, everBlocked, pushed, reloaded, max3090Price>>

\* index.ts:26-31: run() rejected, the error is logged and the process ends; the
\* operator starts it again with a fresh memory
Restart ==
    /\ pc \in {"stopped", "sleep"}
    /\ pc' = "start"
    /\ mi' = 1
    /\ blockedMachineIDs' = <<>>
    /\ throttledIPs' = <<>>
    /\ sessions' = <<>>
    /\ usage' = [id \in InstanceIds |-> <<>>]
    /\ pushed' = [id \in InstanceIds |-> <<>>]
    /\ reloaded' = FALSE
    /\ calls' = <<>>
    /\ evicted' = <<>>
    /\ UNCHANGED <<blockedFile, market, nextId, procs, everBlocked, max3090Price>>

Next ==
    \/ Start
    \/ \E w \in ListingInputs : UpdateSessions(w)
    \/ \E in \in CreateInputs : CreateNewInstance(in)
    \/ \E in \in CreateTunnelsInputs : CreateTunnels(in)
    \/ \E in \in MonitorInputs : MonitorSession(in)
    \/ Sleep
    \/ Restart

Spec == Init /\ [][Next]_vars

----------------------------------------------------------------------------
(* The sliding usage window: one tunneled instance in a quiet world (the        *)
(* listing does not change, nothing is on offer, no call fails), whose GPU load *)
(* is sampled cycle after cycle and may drop once, for good.                    *)

InitUsage ==
    /\ Init
    /\ Len(market) = 1

NonIncreasing(xs) == \A i \in 1..(Len(xs) - 1) : ~Less(xs[i], xs[i + 1])

UsageInputs ==
    IF pc # "monitor" THEN {}
    ELSE IF mi > Len(sessions) \/ ~HasTunnel(sessions[mi])
    THEN {[stdout |-> <<BlankLine>>, failAt |-> 0]}
    ELSE {in \in [stdout : Stdouts, failAt : {0}] :
            \E r \in {MonitorSessionResult(sessions[mi], in)} :
                /\ ~GpuDown(in.stdout)
                /\ NonIncreasing(pushed[sessions[mi].instance.id] \o r.sample)
                /\ Len(pushed[sessions[mi].instance.id] \o r.sample) <= MaxPushes}

NoOffers ==
    [offersFail |-> FALSE, avail |-> {}, outcome |-> [k \in 1..maxSessions |-> "ok"]]

NextUsage ==
    \/ Start
    \/ UpdateSessions(Quiet(market))
    \/ CreateNewInstance(NoOffers)
    \/ TunnelLess(sessions) = {} /\ CreateTunnels(NoAnswers)
    \/ \E in \in UsageInputs : MonitorSession(in)
    \/ Sleep

SpecUsage == InitUsage /\ [][NextUsage]_vars

----------------------------------------------------------------------------
(* Provisioning alone: the manager starts with nothing rented, the listing   *)
(* changes only under the fetches of createTunnels, the telemetry is blank.  *)
(* A call of run() ends only when it is answered: the marketplace requests   *)
(* carry no timeout and ssh bounds the connecting only, so a handler may     *)
(* wait for ever in any of its calls (Hang).  The fairness assumed is that   *)
(* of the answered steps: as long as the marketplace, the hosts and the      *)
(* process table go on answering, run() goes on taking its steps.            *)

InitProvision ==
    /\ Init
    /\ market = <<>>

BlankTelemetry == [stdout |-> <<BlankLine>>, failAt |-> 0]

\* the answers to a pass of createTunnels, here: the first fetch decides, no
\* call fails, the listing and the processes are as the pass left them but for
\* the new tunnel process, which may have died
ProvisionInputs ==
    {in \in CreateTunnelsInputs :
        in.failAt = 0 /\ in.after \in {"seen", "died"} /\ in.n <= 1 /\ ~in.abort}

\* the steps in which every call is answered
AnsweredProvision ==
    \/ Start
    \/ UpdateSessions(Quiet(market))
    \/ \E in \in CreateInputs : CreateNewInstance(in)
    \/ \E in \in ProvisionInputs : CreateTunnels(in)
    \/ MonitorSession(BlankTelemetry)
    \/ Sleep

\* manager.ts:297, 307, 348: updateSessions under w waiting for ever in its
\* k-th call (the listing request, ps, the kill of an orphan): the listing and
\* the processes by then, the orphans before the k-th call being killed; the
\* log holds the call that is not answered without an answer
UpdateSessionsWaits(mkt, ps, sess, w) ==
    LET u == UpdateSessionsOn(mkt, ps, sess, w)
        p2 == SelectSeq(ps, LAMBDA p : p.pid \notin w.dead)
    IN  {[market |-> u.market,
          procs |-> SelectSeq(p2, LAMBDA p : \A i \in 3..(k - 1) : u.calls[i].arg # p.pid),
          calls |-> [SubSeq(u.calls, 1, k) EXCEPT ![k].list = <<>>]] :
            k \in 1..Len(u.calls)}

\* part_001:32, 45, 73, 80, 143 (axios without a timeout) and manager.ts:81,
\* 246, 307, 348 (execa without a timeout, ssh with a ConnectTimeout only): a
\* call of the handler run() is in is never answered, and run() waits in it
\* for ever, in the state the handler has reached by then.  The calls before
\* it are answered as in the steps above.
Hang ==
    LET here == [sessions |-> sessions, procs |-> procs, nextId |-> nextId,
                 phase |-> pc] @@ Effects
        \* the last one of the calls cs is the one not answered
        Unanswered(cs) == [cs EXCEPT ![Len(cs)].list = <<>>]
        \* manager.ts:58
        inUpdateSessions ==
            {[here EXCEPT !.market = u.market, !.procs = u.procs, !.calls = u.calls] :
                u \in UpdateSessionsWaits(market, procs, sessions, Quiet(market))}
        \* manager.ts:162 and 186: getOffers; the k-th createInstance, the
        \* requests before it granted
        inCreateNewInstance ==
            {[here EXCEPT !.calls = <<[op |-> "getOffers", arg |-> 0,
                                       list |-> <<>>]>>]}
            \cup {[here EXCEPT !.market = r.market, !.nextId = r.nextId,
                               !.calls = Unanswered(r.calls)] :
                     r \in {q \in {CreateNewInstanceResult(in) :
                                      in \in {i \in CreateInputs : ~i.offersFail}} :
                               q.threw}}
        \* manager.ts:216: the fetch
        inPoll ==
            {[here EXCEPT !.calls =
                 <<[op |-> "getInstance",
                    arg |-> sessions[FirstTunnelLess(sessions)].instance.id,
                    list |-> <<>>]>>]}
        \* the answers of a pass in which the fetch is answered
        passes == {in \in CreateTunnelsInputs :
                      ~in.abort /\ in.n = 1 /\ in.after \in {"seen", "died"}}
        \* manager.ts:246: the k-th login, the ones before it not showing the
        \* workload
        inVerify ==
            {[here EXCEPT !.sessions = r.sessions, !.market = r.market,
                          !.calls = SubSeq(r.calls, 1, 1) \o
                                    [j \in 1..k |-> [r.calls[2] EXCEPT !.list = <<>>]]] :
                r \in {CreateTunnelsResult(in) : in \in {i \in passes : i.ssh = 1}},
                k \in 1..VerifyAttempts}
        \* manager.ts:232, 237, 264: the termination request of an eviction
        inEviction ==
            {[here EXCEPT !.sessions = r.sessions, !.market = r.market,
                          !.blockedMachineIDs = r.blockedMachineIDs,
                          !.blockedFile = r.blockedFile,
                          !.everBlocked = r.everBlocked,
                          !.calls = Unanswered(r.calls)] :
                r \in {CreateTunnelsResult(in) : in \in {i \in passes : i.failAt = 1}}}
        \* manager.ts:291: the calls of the closing updateSessions
        inRefresh ==
            UNION {{[here EXCEPT !.sessions = x.r.sessions, !.market = u.market,
                                 !.procs = u.procs, !.calls = x.r.calls \o u.calls] :
                       u \in UpdateSessionsWaits(x.r.market, x.r.procs, x.r.sessions,
                                                 AfterWorld(x.r.market, x.r.procs, x.after))} :
                   x \in {y \in {[r |-> CreateTunnelsResult(in), after |-> in.after] :
                                    in \in passes} : y.r.loop}}
        \* manager.ts:81 and 126: the telemetry login; the termination request
        \* for an exited instance
        inMonitor ==
            {[here EXCEPT !.calls = <<[op |-> "nvidia-smi",
                                       arg |-> sessions[mi].instance.id,
                                       list |-> <<>>]>>]}
            \cup {[here EXCEPT !.market = r.market, !.calls = Unanswered(r.calls)] :
                     r \in {q \in {MonitorSessionResult(sessions[mi],
                                       [BlankTelemetry EXCEPT !.failAt = 1])} : q.threw}}
        waits ==
            IF pc = "updateSessions" THEN inUpdateSessions
            ELSE IF pc = "createNewInstance" /\ Len(sessions) < maxSessions
                THEN inCreateNewInstance
            ELSE IF pc = "createTunnels" /\ TunnelLess(sessions) # {}
                THEN inPoll \cup inVerify \cup inEviction \cup inRefresh
            ELSE IF pc = "monitor" /\ mi <= Len(sessions) /\ HasTunnel(sessions[mi])
                THEN inMonitor
            ELSE {}
    IN  /\ \E r \in waits :
               /\ sessions' = r.sessions
               /\ market' = r.market
               /\ procs' = r.procs
               /\ nextId' = r.nextId
               /\ blockedMachineIDs' = r.blockedMachineIDs
               /\ blockedFile' = r.blockedFile
               /\ everBlocked' = r.everBlocked
               /\ calls' = r.calls
               /\ evicted' = evicted \o Evictions(r.phase, r.calls)
        /\ pc' = "hung"
        /\ UNCHANGED <<mi, max3090Price, throttledIPs, usage, pushed, reloaded>>

NextProvision == AnsweredProvision \/ Hang

SpecProvision ==
    InitProvision /\ [][NextProvision]_vars /\ WF_vars(AnsweredProvision)

----------------------------------------------------------------------------
(* The offer filters alone: the manager is started under one of several price *)
(* ceilings (index.ts:24) and contents of throttled_ips.txt, with at most one *)
(* instance rented, and runs up to the end of createNewInstance.              *)

\* contents of throttled_ips.txt: one prefix; a longer prefix listed before a
\* shorter one that covers it; a prefix after a stray comma; an empty file
ThrottledFiles ==
    { ThrottledFile,
      <<"1", "0", ".", "0", ".", "0", ".", "5", ",">> \o ThrottledFile,
      <<",">> \o ThrottledFile,
      <<>> }

OfferWorlds ==
    { [market |-> <<>>, procs |-> <<>>] } \cup
    { [market |-> <<RawInstance(1, m, RunningPhase)>>,
       procs |-> <<TunnelProc(1, TunnelPortBase + 1,
                              NormalizeInstance(RawInstance(1, m, RunningPhase)))>>] :
        m \in {7, 12, 123} }

InitOffers ==
    /\ pc = "start"
    /\ mi = 1
    /\ max3090Price \in PriceCeilings
    /\ blockedMachineIDs = <<>>
    /\ throttledIPs = <<>>
    /\ sessions = <<>>
    /\ usage = [id \in InstanceIds |-> <<>>]
    /\ blockedFile = <<>>
    /\ \E w \in OfferWorlds :
          /\ market = w.market
          /\ procs = w.procs
          /\ nextId = Len(w.market) + 1
    /\ calls = <<>>
    /\ everBlocked = {}
    /\ pushed = [id \in InstanceIds |-> <<>>]
    /\ reloaded = FALSE
    /\ evicted = <<>>

NextOffers ==
    \/ \E file \in ThrottledFiles : StartOn(file)
    \/ UpdateSessions(Quiet(market))
    \/ \E in \in CreateInputs : CreateNewInstance(in)
    \/ Restart

SpecOffers == InitOffers /\ [][NextOffers]_vars

----------------------------------------------------------------------------
(* Provisioning with a slow process table: as SpecProvision, but a tunnel     *)
(* process never dies; the listing of ps taken 10 s after the spawn           *)
(* (manager.ts:290-291) may not show the new process yet.                     *)

\* the tunnel processes the machine is let to run
MaxProcs == 3

LagInputs ==
    {in \in ProvisionInputs : in.after = "seen"} \cup
    {[in EXCEPT !.after = "late"] :
        in \in {q \in ProvisionInputs : q.after = "died" /\ Len(procs) < MaxProcs}}

NextLag ==
    \/ Start
    \/ UpdateSessions(Quiet(market))
    \/ \E in \in CreateInputs : CreateNewInstance(in)
    \/ \E in \in LagInputs : CreateTunnels(in)
    \/ MonitorSession(BlankTelemetry)
    \/ Sleep

SpecLag == InitProvision /\ [][NextLag]_vars

----------------------------------------------------------------------------
(* Marketplace client: wrap, part_001:49-61.  One call of a method of VastAI  *)
(* on its own: the attempts of its request, each with the answer it gets.     *)

\* p-retry with retries: 3 (part_001:60)
WrapAttempts == 4

\* What an attempt of fn() ends with: the response, or an error.  axios: the
\* error is an AxiosError; status: the HTTP status its message names
\* ('Request failed with status code N'), 0 if its message names none
\* ('Network Error', or an error of another kind); type: it is a TypeError
\* (a body without the field the method reads).
HttpAnswers ==
    { [ok |-> TRUE, axios |-> FALSE, status |-> 200, type |-> FALSE],
      [ok |-> FALSE, axios |-> TRUE, status |-> 429, type |-> FALSE],
      [ok |-> FALSE, axios |-> TRUE, status |-> 500, type |-> FALSE],
      [ok |-> FALSE, axios |-> TRUE, status |-> 404, type |-> FALSE],
      [ok |-> FALSE, axios |-> TRUE, status |-> 0, type |-> FALSE],
      [ok |-> FALSE, axios |-> FALSE, status |-> 0, type |-> FALSE],
      [ok |-> FALSE, axios |-> FALSE, status |-> 0, type |-> TRUE] }

\* part_001:54, error.message.includes('429'): the words of these messages
\* hold no digit, the status does
Has429(ans) ==
    ans.status > 0 /\ Includes(NumToString(ans.status), <<"4", "2", "9">>)

\* part_001:54-57 and p-retry: the error is rethrown as it is when its
\* message includes '429' or it is no AxiosError, and p-retry then tries
\* again unless it is a TypeError; any other error is wrapped in an
\* AbortError, which ends p-retry
WrapRetries(ans) == (Has429(ans) \/ ~ans.axios) /\ ~ans.type

\* the methods of VastAI, all of them `return this.wrap(...)`
WrapOps == {"getInstances", "terminateInstance", "createInstance", "getInstance",
            "getOffers"}

InitWrap ==
    /\ pc = "wrap"
    /\ mi = 1
    /\ max3090Price = MAX_3090_PRICE
    /\ blockedMachineIDs = <<>>
    /\ throttledIPs = <<>>
    /\ sessions = <<>>
    /\ usage = [id \in InstanceIds |-> <<>>]
    /\ blockedFile = <<>>
    /\ market = <<>>
    /\ procs = <<>>
    /\ nextId = 1
    /\ calls = <<>>
    /\ everBlocked = {}
    /\ pushed = [id \in InstanceIds |-> <<>>]
    /\ reloaded = FALSE
    /\ evicted = <<>>

\* one attempt of the request of method op, answered by ans; calls is the log
\* of the attempts of this call
WrapAttempt(op, ans) ==
    /\ pc = "wrap"
    /\ Len(calls) < WrapAttempts
    /\ calls # <<>> => calls[1].op = op
    /\ calls' = Append(calls, [op |-> op, arg |-> ans.status, list |-> <<ans>>])
    /\ pc' = IF ans.ok THEN "resolved"
             ELSE IF WrapRetries(ans) /\ Len(calls) + 1 < WrapAttempts THEN "wrap"
             ELSE "rejected"
    /\ UNCHANGED <<mi, blockedMachineIDs, throttledIPs, sessions, usage, blockedFile,
                   market, nextId, procs, everBlocked, pushed, reloaded,
                   max3090Price, evicted>>

NextWrap == \E op \in WrapOps : \E ans \in HttpAnswers : WrapAttempt(op, ans)

SpecWrap == InitWrap /\ [][NextWrap]_vars

----------------------------------------------------------------------------
(* Properties *)

\* the offer a creation request names
OfferById(id) == Catalog[CHOOSE i \in 1..Len(Catalog) : Catalog[i].id = id]

\* the machines the creation requests of the last step were for, in order
RequestedMachines ==
    LET reqs == SelectSeq(calls, LAMBDA c : c.op = "createInstance")
    IN  [k \in 1..Len(reqs) |-> OfferById(reqs[k].arg).machine_id]

\* C1: a creation request is never for a machine that an eviction has blocked,
\* however long ago and whether or not the process was restarted since: such a
\* machine is in the list the running process holds (the file gives it back on
\* a restart), and no request is for a machine of that list.
C1_BlockedNeverRequested ==
    /\ pc # "start" => everBlocked \subseteq Range(blockedMachineIDs)
    /\ \A k \in 1..Len(RequestedMachines) :
           /\ RequestedMachines[k] \notin everBlocked
           /\ RequestedMachines[k] \notin Range(blockedMachineIDs)

\* a restarted process has reloaded a blocked machine that is free and that the
\* filters would accept, and has just requested another machine
C1_Witness ==
    /\ reloaded
    /\ Len(RequestedMachines) > 0
    /\ \E m \in everBlocked :
           /\ ~Rented(m)
           /\ OfferOf(m).inet_up >= inetUp
           /\ OfferOf(m).total_flops >= tflops
           /\ PriceOk(OfferOf(m)) /\ NetworkOk(OfferOf(m)) /\ GeoOk(OfferOf(m))

\* the fixed range of local tunnel ports
TunnelPorts == (TunnelPortBase + 1)..(TunnelPortBase + maxSessions)

\* the ports the tunnel processes spawned in the last step were given, in order
SpawnedPorts(cs) ==
    LET sp == SelectSeq(cs, LAMBDA c : c.op = "autossh")
    IN  [k \in 1..Len(sp) |-> sp[k].arg]

\* C2: the tunnels attached to the sessions have pairwise distinct local ports,
\* and every port the provisioner gives a tunnel process it spawns is one of
\* 10001 .. 10000 + maxSessions.
C2_TunnelPortsDistinct ==
    /\ \A i, j \in 1..Len(sessions) :
           (i # j /\ HasTunnel(sessions[i]) /\ HasTunnel(sessions[j]))
               => sessions[i].sshTunnel.tunnelPort # sessions[j].sshTunnel.tunnelPort
    /\ \A k \in 1..Len(SpawnedPorts(calls)) : SpawnedPorts(calls)[k] \in TunnelPorts

\* a second tunnel was just spawned and attached while the first port was held
C2_Witness ==
    /\ SpawnedPorts(calls) = <<TunnelPortBase + 2>>
    /\ \E i, j \in 1..Len(sessions) :
           /\ sessions[i].sshTunnel.tunnelPort = TunnelPortBase + 1
           /\ sessions[j].sshTunnel.tunnelPort = TunnelPortBase + 2
           /\ sessions[j].sshTunnel.pid \in {procs[k].pid : k \in 1..Len(procs)}

\* the step just taken passed the readiness polling and the ssh verification
\* of a tunnel-less session: it verified and evicted nothing
ReachedSpawn(cs) ==
    /\ \E k \in 1..Len(cs) : cs[k].op = "ssh ps aux"
    /\ ~\E k \in 1..Len(cs) : cs[k].op = "writeFile"

\* the ports held by the tunnels of the sessions
UsedPorts(sess) == {sess[k].sshTunnel.tunnelPort : k \in 1..Len(sess)}

\* C3: a pass of the provisioner that gets as far as spawning gives the tunnel
\* the lowest port of the range that no session's tunnel holds; if all are
\* held it throws: the run stops, no tunnel process is spawned, no call
\* follows the verification, and no tunnel is attached or detached.
C3_LowestFreePort ==
    [][(pc = "createTunnels" /\ ReachedSpawn(calls'))
          => LET free == TunnelPorts \ UsedPorts(sessions)
             IN  IF free = {}
                 THEN /\ pc' = "stopped"
                      /\ SpawnedPorts(calls') = <<>>
                      /\ calls'[Len(calls')].op = "ssh ps aux"
                      /\ procs' = procs
                      /\ Len(sessions') = Len(sessions)
                      /\ \A i \in 1..Len(sessions) :
                             sessions'[i].sshTunnel = sessions[i].sshTunnel
                 ELSE /\ Len(SpawnedPorts(calls')) = 1
                      /\ SpawnedPorts(calls')[1] \in free
                      /\ \A q \in free : SpawnedPorts(calls')[1] <= q]_vars

\* the run stopped right after a successful verification: every port of the
\* range was held and a session was still without a tunnel
C3_Witness ==
    /\ pc = "stopped"
    /\ ReachedSpawn(calls)
    /\ SpawnedPorts(calls) = <<>>
    /\ TunnelLess(sessions) # {}
    /\ TunnelPorts \subseteq UsedPorts(sessions)

\* the offers the marketplace returned to the last step, in its order
ReturnedOffers(cs) ==
    LET g == SelectSeq(cs, LAMBDA c : c.op = "getOffers")
    IN  IF Len(g) = 0 THEN <<>>
        ELSE [k \in 1..Len(g[1].list) |-> OfferById(g[1].list[k])]

\* the creation requests of a step, in order
Requests(cs) == SelectSeq(cs, LAMBDA c : c.op = "createInstance")

\* C4: one pass of the acquisition engine sends no creation request when the
\* session list already holds maxSessions sessions or more; otherwise it sends
\* at most maxSessions - |sessions| requests, for the offers that survived the
\* filters, in the order the marketplace returned them, none skipped, each
\* only after the previous one succeeded; if none failed it stops only when
\* the capacity is filled or the surviving offers are used up.
C4_AcquisitionBounded ==
    [][pc = "createNewInstance"
          => LET reqs == Requests(calls')
                 surv == SurvivingOffers(ReturnedOffers(calls'), throttledIPs, sessions)
                 room == maxSessions - Len(sessions)
                 created == nextId' - nextId
             IN  /\ Len(sessions) >= maxSessions => reqs = <<>>
                 /\ Len(sessions) < maxSessions => Len(reqs) <= room
                 /\ Len(reqs) <= Len(surv)
                 /\ \A k \in 1..Len(reqs) : reqs[k].arg = surv[k].id
                 /\ Len(reqs) <= created + 1
                 /\ (Len(sessions) < maxSessions /\ created = Len(reqs))
                        => Len(reqs) = Min(room, Len(surv))]_vars

\* with one session and two surviving offers, only the first was requested
C4_Witness ==
    /\ pc = "createTunnels"
    /\ Len(sessions) = maxSessions - 1
    /\ Len(SurvivingOffers(ReturnedOffers(calls), throttledIPs, sessions)) = 2
    /\ Len(Requests(calls)) = 1
    /\ Requests(calls)[1].arg = ReturnedOffers(calls)[1].id

IsPrefix(xs, ys) == Len(xs) <= Len(ys) /\ SubSeq(ys, 1, Len(xs)) = xs

\* the machine ids the blocklist writes of a step added, in order
BlockWrites(cs) ==
    LET ws == SelectSeq(cs, LAMBDA c : c.op = "writeFile")
    IN  [k \in 1..Len(ws) |-> ws[k].arg]

\* C5: the blocklist changes only by an eviction.  A step of the running
\* process extends the list in memory by exactly the machines of its blocklist
\* writes, each write being followed at once by the termination request of an
\* instance on that machine; a step without such a write (reconciliation,
\* acquisition, tunnel spawning, the termination of an exited instance) leaves
\* list and file as they were.  The file is only ever extended, and what a
\* starting process loads from it is the list the file was written from.
C5_BlocklistFrame ==
    [][/\ blockedFile' # blockedFile
             => IsPrefix(LoadBlocked(blockedFile), LoadBlocked(blockedFile'))
       /\ pc = "start" => /\ blockedFile' = blockedFile
                          /\ blockedMachineIDs' = LoadBlocked(blockedFile)
                          /\ everBlocked \subseteq Range(blockedMachineIDs')
       /\ pc' = "start" => blockedFile' = blockedFile
       /\ (pc # "start" /\ pc' # "start")
             => /\ blockedMachineIDs' = blockedMachineIDs \o BlockWrites(calls')
                /\ BlockWrites(calls') = <<>> => blockedFile' = blockedFile
                /\ BlockWrites(calls') # <<>>
                      => LoadBlocked(blockedFile') = blockedMachineIDs'
                /\ \A k \in 1..Len(calls') :
                       calls'[k].op = "writeFile"
                          => /\ k < Len(calls')
                             /\ calls'[k + 1].op = "terminateInstance"
                             /\ \E i \in 1..Len(sessions) :
                                    /\ sessions[i].instance.id = calls'[k + 1].arg
                                    /\ sessions[i].instance.machine_id = calls'[k].arg]_vars

\* an exited instance was just terminated, without a blocklist write, while
\* the blocklist held a machine
C5_Witness ==
    /\ \E k \in 1..(Len(calls) - 1) :
           /\ calls[k].op = "warn: exited"
           /\ calls[k + 1] = Call("terminateInstance", calls[k].arg)
    /\ BlockWrites(calls) = <<>>
    /\ everBlocked # {}
    /\ everBlocked \subseteq Range(blockedMachineIDs)
    /\ LoadBlocked(blockedFile) = blockedMachineIDs

\* the lines the process listing of a step showed, and the instance ids the
\* marketplace listing of that step returned
PsLines(cs) ==
    LET c == SelectSeq(cs, LAMBDA x : x.op = "ps")
    IN  IF Len(c) = 0 THEN <<>> ELSE c[1].list

ListedIds(cs) ==
    LET c == SelectSeq(cs, LAMBDA x : x.op = "getInstances")
    IN  IF Len(c) = 0 THEN <<>> ELSE c[1].list

KilledPids(cs) == {cs[k].arg : k \in {j \in 1..Len(cs) : cs[j].op = "kill"}}

\* the process line is a tunnel to the instance's address and remote port
LineServes(line, inst) ==
    line.host = inst.public_ipaddr /\ line.p = inst.direct_port_start

\* a line that does not yield a pid, a host, a remote port or a local port
Unparsable(line) ==
    line.pid = NaN \/ line.host = <<>> \/ line.p = NaN \/ line.L = NaN

\* a step that listed the tunnel processes and did not stop the run
Reconciled(cs, stopped) ==
    \E k \in 1..Len(cs) : cs[k].op = "ps" /\ ~stopped

\* C6: after a reconciliation that succeeded, the session list holds one
\* session per listed instance, in listing order, with the instance as listed;
\* a listed tunnel process that serves no listed instance was sent a kill and
\* is the tunnel of no session, and no other process was sent one; a session
\* whose instance some process serves has such a process as its tunnel; every
\* other session has no tunnel.
C6_Reconciled ==
    [][Reconciled(calls', pc' = "stopped")
          => LET lines == PsLines(calls')
                 ids == ListedIds(calls')
                 served(i) == {k \in 1..Len(lines) :
                                  LineServes(lines[k], sessions'[i].instance)}
             IN  /\ Len(sessions') = Len(ids)
                 /\ Len(market') = Len(ids)
                 /\ \A i \in 1..Len(ids) :
                        /\ sessions'[i].instance.id = ids[i]
                        /\ sessions'[i].instance = NormalizeInstance(market'[i])
                        /\ served(i) = {} => sessions'[i].sshTunnel = NoTunnel
                        /\ served(i) # {}
                              => \E k \in served(i) :
                                     sessions'[i].sshTunnel =
                                        [pid |-> lines[k].pid, tunnelPort |-> lines[k].L,
                                         port |-> lines[k].p, host |-> lines[k].host]
                 /\ \A k \in 1..Len(lines) :
                        LET orphan == \A i \in 1..Len(ids) : k \notin served(i)
                        IN  /\ orphan <=> lines[k].pid \in KilledPids(calls')
                            /\ orphan => /\ \A i \in 1..Len(ids) :
                                               sessions'[i].sshTunnel.pid # lines[k].pid
                                         /\ \A j \in 1..Len(procs') :
                                               procs'[j].pid # lines[k].pid]_vars

\* a reconciliation has just killed the tunnel of an instance that is no
\* longer listed, and left a running instance with a port without a tunnel
C6_Witness ==
    /\ pc = "createNewInstance"
    /\ KilledPids(calls) # {}
    /\ \E j \in 1..Len(sessions) :
           /\ ~HasTunnel(sessions[j])
           /\ PollReady(sessions[j].instance)

\* C7: when a listed tunnel process line yields no pid, host, remote port or
\* local port, the reconciliation throws and the run stops: no process is sent
\* a kill, every process stays alive, no tunnel is attached or detached, and a
\* reconciliation that opens a cycle leaves the session list as it was.
C7_ParseFailureAborts ==
    [][(\E k \in 1..Len(PsLines(calls')) : Unparsable(PsLines(calls')[k]))
          => /\ pc' = "stopped"
             /\ KilledPids(calls') = {}
             /\ calls'[Len(calls')].op = "ps"
             /\ \A k \in 1..Len(PsLines(calls')) :
                    ~Unparsable(PsLines(calls')[k])
                       => \E j \in 1..Len(procs') : procs'[j].pid = PsLines(calls')[k].pid
             /\ Len(sessions') = Len(sessions)
             /\ \A i \in 1..Len(sessions) : sessions'[i].sshTunnel = sessions[i].sshTunnel
             /\ pc = "updateSessions" => sessions' = sessions]_vars

\* the run stopped on an unparsable line while a tunnel process without a
\* listed instance was alive, and a session without a tunnel had a listed one
C7_Witness ==
    /\ pc = "stopped"
    /\ \E k \in 1..Len(PsLines(calls)) : Unparsable(PsLines(calls)[k])
    /\ \E j \in 1..Len(procs) :
           \A i \in 1..Len(market) : ~LineServes(PsLine(procs[j]), NormalizeInstance(market[i]))
    /\ Len(sessions) > 0

\* C8: no usage window is ever longer than 60, and each is first in, first
\* out: it holds the samples pushed for the instance, in order, less the
\* oldest ones beyond 60 (after 61 pushes it starts at the second).
C8_WindowFifo ==
    \A id \in InstanceIds :
        /\ Len(usage[id]) <= 60
        /\ Len(pushed[id]) <= 60 => usage[id] = pushed[id]
        /\ Len(pushed[id]) > 60
              => usage[id] = SubSeq(pushed[id], Len(pushed[id]) - 59, Len(pushed[id]))

\* 61 samples were pushed, the last unlike the first: the window starts at
\* the second
C8_Witness ==
    \E id \in InstanceIds :
        /\ Len(pushed[id]) = 61
        /\ pushed[id][61] # pushed[id][1]
        /\ Len(usage[id]) = 60
        /\ usage[id] = Tail(pushed[id])

\* the step warned of underutilization and evicted the instance at once
UnderutilizedEviction(cs, inst) ==
    \E k \in 1..(Len(cs) - 2) :
        /\ cs[k] = Call("warn: underutilized", inst.id)
        /\ cs[k + 1] = Call("writeFile", inst.machine_id)
        /\ cs[k + 2] = Call("terminateInstance", inst.id)

\* C9: a pass of the monitor over a tunneled session evicts the instance for
\* underutilization exactly when it appended a sample and the window then
\* holds more than 30 samples whose average is below 0.55 (the average and the
\* comparison in the arithmetic of JavaScript numbers).
C9_UnderutilizationExact ==
    [][(pc = "monitor" /\ mi <= Len(sessions) /\ HasTunnel(sessions[mi]))
          => LET inst == sessions[mi].instance
                 h == usage'[inst.id]
             IN  UnderutilizedEviction(calls', inst)
                    <=> /\ Len(pushed'[inst.id]) = Len(pushed[inst.id]) + 1
                        /\ Len(h) > 30
                        /\ Less(Average(h), Decimal(55, 100))]_vars

\* the 31st sample at 1/8, after 30 at 1/8, has just evicted the instance
C9_Witness ==
    \E i \in 1..Len(sessions) :
        /\ Len(pushed[sessions[i].instance.id]) = 31
        /\ \A k \in 1..31 : pushed[sessions[i].instance.id][k] = Decimal(1, 8)
        /\ UnderutilizedEviction(calls, sessions[i].instance)

\* the telemetry output the last step read
Telemetry(cs) ==
    LET c == SelectSeq(cs, LAMBDA x : x.op = "nvidia-smi")
    IN  IF Len(c) = 0 THEN <<>> ELSE c[1].list

\* the GPU lines of a telemetry output that report a limit below the rated TDP
LowLimit(inst, out) ==
    {k \in 1..Len(out) :
        /\ out[k].cells = 2
        /\ TdpOf(ToLowerCase(inst.gpu_name)) # 0
        /\ out[k].limit < TdpOf(ToLowerCase(inst.gpu_name))}

\* the step warned of an underpowered GPU and evicted the instance at once
UnderpoweredEviction(cs, inst) ==
    \E k \in 1..(Len(cs) - 2) :
        /\ cs[k] = Call("warn: underpowered", inst.id)
        /\ cs[k + 1] = Call("writeFile", inst.machine_id)
        /\ cs[k + 2] = Call("terminateInstance", inst.id)

\* C10: when the telemetry of a tunneled session with a rated GPU model shows
\* a GPU with a limit below the rating, the pass evicts the instance, whatever
\* its window holds, once, and reads no GPU line after the first such one: the
\* sample of the pass, if any, is the average over the lines before it.
C10_UnderpoweredEvicts ==
    [][(/\ pc = "monitor" /\ mi <= Len(sessions) /\ HasTunnel(sessions[mi])
        /\ LowLimit(sessions[mi].instance, Telemetry(calls')) # {})
          => LET inst == sessions[mi].instance
                 out == Telemetry(calls')
                 low == LowLimit(inst, out)
                 first == CHOOSE k \in low : \A j \in low : k <= j
                 before == SelectSeq(SubSeq(out, 1, first - 1), LAMBDA l : l.cells = 2)
                 utils == [k \in 1..Len(before) |-> Utilization(before[k])]
             IN  /\ UnderpoweredEviction(calls', inst)
                 /\ Len(SelectSeq(calls', LAMBDA c : c.op = "warn: underpowered")) = 1
                 /\ pushed'[inst.id] =
                       pushed[inst.id] \o (IF Len(utils) = 0 THEN <<>>
                                           ELSE <<Average(utils)>>)]_vars

\* an instance with a long healthy window was just evicted on the second GPU
\* line of three
C10_Witness ==
    \E i \in 1..Len(sessions) :
        /\ Len(Telemetry(calls)) = 3
        /\ LowLimit(sessions[i].instance, Telemetry(calls)) = {2}
        /\ UnderpoweredEviction(calls, sessions[i].instance)
        /\ ~UnderutilizedEviction(calls, sessions[i].instance)
        /\ Len(usage[sessions[i].instance.id]) > 30

\* the last call of a step is a marketplace call that failed for good: a
\* listing that returned nothing to parse (no process listing followed it), or
\* a termination request answered with an error
OperationalFailure(cs) ==
    /\ cs # <<>>
    /\ \/ cs[Len(cs)].op = "getInstances"
       \/ /\ cs[Len(cs)].op = "terminateInstance"
          /\ cs[Len(cs)].list # <<>>

\* C11: a step of the loop in which a marketplace listing or termination call
\* failed after its retries does not stop the run: the loop goes on (to the
\* sleep and the next reconciliation).
C11_LoopSurvivesFailure ==
    [][(pc \notin {"start", "stopped"} /\ OperationalFailure(calls'))
          => pc' # "stopped"]_vars

\* the run has stopped on a failed listing call of the reconciliation that
\* opens a cycle, with sessions in hand
C11_Witness ==
    /\ pc = "stopped"
    /\ calls # <<>>
    /\ calls[Len(calls)].op = "getInstances"
    /\ Len(sessions) > 0

\* how many times block-and-terminate ran for the instance in the current cycle
EvictionCount(id) == Cardinality({k \in 1..Len(evicted) : evicted[k].id = id})

\* C12: within a cycle, block-and-terminate (a blocklist write and a
\* termination request) runs at most once for any instance.
C12_EvictedOncePerCycle == \A id \in InstanceIds : EvictionCount(id) <= 1

\* one pass of the monitor has warned that the GPU cannot be queried and that
\* it is underpowered, and has run block-and-terminate for the instance twice:
\* the blocklist holds its machine twice
C12_Witness ==
    \E i \in 1..Len(sessions) :
        /\ EvictionCount(sessions[i].instance.id) = 2
        /\ \E k \in 1..Len(calls) : calls[k] = Call("warn: GPU is down", sessions[i].instance.id)
        /\ \E k \in 1..Len(calls) : calls[k] = Call("warn: underpowered", sessions[i].instance.id)
        /\ Cardinality({k \in 1..Len(blockedMachineIDs) :
                           blockedMachineIDs[k] = sessions[i].instance.machine_id}) = 2

\* C13: the provisioning phase of a cycle ends: once run() has entered
\* createTunnels, control leaves it (for health monitoring and the sleep),
\* unless a call is never answered.
C13_ProvisioningEnds == (pc = "createTunnels") ~> (pc # "createTunnels")

\* a pass of createTunnels has spawned a tunnel process that was gone when
\* the closing reconciliation listed the processes: the session is still
\* without a tunnel and the loop goes round again
C13_Witness ==
    /\ pc = "createTunnels"
    /\ SpawnedPorts(calls) # <<>>
    /\ TunnelLess(sessions) # {}
    /\ LET s == sessions[FirstTunnelLess(sessions)]
       IN  /\ PollReady(s.instance)
           /\ \A j \in 1..Len(procs) : ~Matches(procs[j], s.instance)

\* C14: the throttle filter rejects an offer exactly when some throttled prefix
\* starts both the offer's address and the address of an existing session: the
\* creation requests of a pass go, in order and none skipped, to the returned
\* offers that pass the price, network and geography filters and share no
\* throttled prefix with a session ('', the entry an empty file or a stray
\* comma yields, is not counted as a prefix).
C14_ThrottleExact ==
    [][pc = "createNewInstance"
          => LET shared(o) ==
                     \E i \in 1..Len(throttledIPs) :
                         /\ throttledIPs[i] # <<>>
                         /\ StartsWith(o.public_ipaddr, throttledIPs[i])
                         /\ \E k \in 1..Len(sessions) :
                                StartsWith(sessions[k].instance.public_ipaddr,
                                           throttledIPs[i])
                 pass == SelectSeq(ReturnedOffers(calls'), LAMBDA o :
                             PriceOk(o) /\ NetworkOk(o) /\ GeoOk(o) /\ ~shared(o))
                 reqs == Requests(calls')
             IN  /\ Len(reqs) <= Len(pass)
                 /\ \A k \in 1..Len(reqs) : reqs[k].arg = pass[k].id]_vars

\* an offer was requested although a throttled prefix, listed after a longer
\* one, starts both its address and the address of the session
C14_Witness ==
    /\ pc = "createTunnels"
    /\ Len(throttledIPs) = 2
    /\ throttledIPs[1] # <<>>
    /\ Len(sessions) = 1
    /\ \E k \in 1..Len(calls) :
           /\ calls[k].op = "createInstance"
           /\ StartsWith(OfferById(calls[k].arg).public_ipaddr, throttledIPs[2])
           /\ StartsWith(sessions[1].instance.public_ipaddr, throttledIPs[2])
           /\ ThrottleOk(OfferById(calls[k].arg), throttledIPs, sessions)

\* C15, the acceptance rule: an offer is accepted only if its ratio
\* total_flops / dph_total is strictly greater than the threshold of its
\* family, 82.6 / (ceiling / 0.6) = 49.56 / ceiling for the 4090 family and
\* 35.3 / ceiling for every other (of the two, the former is the higher one).
\* The ratio and the threshold are compared as the rationals they are, in the
\* scaled units: every offer a pass of createNewInstance requests is strictly
\* above its line.
C15_StrictlyAbove ==
    [][pc = "createNewInstance"
          => \A k \in 1..Len(calls') :
                 calls'[k].op = "createInstance"
                     => LET o == OfferById(calls'[k].arg)
                        IN  IF Includes(o.gpu_name, <<"4", "0", "9", "0">>)
                            THEN 10 * o.total_flops * max3090Price > 4956 * o.dph_total
                            ELSE o.total_flops * max3090Price > 353 * o.dph_total]_vars

\* a 4090 offer whose ratio is exactly the threshold of its family was requested
C15_Witness ==
    /\ pc = "createTunnels"
    /\ \E k \in 1..Len(calls) :
           /\ calls[k].op = "createInstance"
           /\ Includes(OfferById(calls[k].arg).gpu_name, <<"4", "0", "9", "0">>)
           /\ 10 * OfferById(calls[k].arg).total_flops * max3090Price
                 = 4956 * OfferById(calls[k].arg).dph_total

\* the positions of the calls op of a log before position k
Before(cs, op, k) == {j \in 1..(k - 1) : cs[j].op = op}

Last(js) == CHOOSE j \in js : \A i \in js : i <= j

\* C16: a turn of the provisioning loop spawns a tunnel only after, in that
\* turn and in this order, the last fetch of the session's instance showed
\* status 'running' with a remote port assigned and the last remote login
\* showed the workload process: no tunnel is spawned in a turn whose polling or
\* verification failed.
C16_SpawnAfterChecks ==
    [][pc = "createTunnels"
          => \A k \in 1..Len(calls') :
                 calls'[k].op = "autossh"
                     => LET id == sessions[FirstTunnelLess(sessions)].instance.id
                            gs == Before(calls', "getInstance", k)
                            ss == Before(calls', "ssh ps aux", k)
                        IN  /\ gs # {} /\ ss # {}
                            /\ Last(gs) < Last(ss)
                            /\ \A j \in gs \cup ss : calls'[j].arg = id
                            /\ Len(calls'[Last(gs)].list) = 1
                            /\ calls'[Last(gs)].list[1].actual_status = "running"
                            /\ calls'[Last(gs)].list[1].assigned
                            /\ WorkloadShown(calls'[Last(ss)].list)
                            /\ \A j \in ss : j > Last(gs)]_vars

\* a tunnel was spawned after a second fetch and a second login
C16_Witness ==
    \E k \in 1..Len(calls) :
        /\ calls[k].op = "autossh"
        /\ Cardinality(Before(calls, "getInstance", k)) = 2
        /\ Cardinality(Before(calls, "ssh ps aux", k)) = 2
        /\ ~WorkloadShown(calls[k - 2].list)
        /\ WorkloadShown(calls[k - 1].list)

\* C17: in the readiness polling of a turn, the session is evicted as soon as
\* a fetch shows a fatal status message (that fetch is the last of the turn),
\* otherwise after PollAttempts fetches none of which showed the instance
\* ready; it is not evicted in the polling while fewer than PollAttempts
\* fetches were made and none showed a fatal status message.
C17_PollingEviction ==
    [][(pc = "createTunnels" /\ TunnelLess(sessions) # {})
          => LET gs == {k \in 1..Len(calls') : calls'[k].op = "getInstance"}
                 shown(k) == calls'[k].list
                 fatal(k) ==
                     /\ shown(k) # <<>>
                     /\ \/ MsgIncludes(shown(k)[1].status_msg, "Error response from daemon")
                        \/ MsgIncludes(shown(k)[1].status_msg, "docker: invalid hostPort")
                 ready(k) ==
                     /\ shown(k) # <<>>
                     /\ shown(k)[1].actual_status = "running" /\ shown(k)[1].assigned
                 polling == \A k \in 1..Len(calls') : calls'[k].op # "ssh ps aux"
                 evicts == Evictions("createTunnels", calls') # <<>>
             IN  /\ \A k \in gs : (fatal(k) /\ ~ready(k))
                        => /\ evicts /\ polling
                           /\ \A j \in gs : j <= k
                 /\ (Cardinality(gs) = PollAttempts /\ \A k \in gs : ~ready(k))
                        => evicts /\ polling
                 /\ (evicts /\ polling)
                        => \/ \E k \in gs : fatal(k)
                           \/ Cardinality(gs) = PollAttempts]_vars

\* the session was evicted after a single fetch that failed, no status message
\* seen, and its machine is in the blocklist
C17_Witness ==
    /\ Len(calls) >= 3
    /\ calls[1].op = "getInstance" /\ calls[1].list = <<>>
    /\ calls[2].op = "writeFile"
    /\ calls[3].op = "terminateInstance" /\ calls[3].arg = calls[1].arg
    /\ Len(evicted) = 1 /\ evicted[1].id = calls[1].arg

\* C18: within one cycle createTunnels drives at most one tunnel-less session
\* through polling and verification and spawns at most one tunnel: once a turn
\* of its loop has spawned a tunnel, createTunnels fetches no instance, makes
\* no remote login and spawns nothing more before run() goes on.
C18_OneSessionPerPass ==
    [][(pc = "createTunnels" /\ SpawnedPorts(calls) # <<>>)
          => \A k \in 1..Len(calls') :
                 calls'[k].op \notin {"getInstance", "ssh ps aux", "autossh"}]_vars

\* createTunnels has spawned a tunnel that is now attached to its session, and
\* is about to take up a second tunnel-less session
C18_Witness ==
    /\ pc = "createTunnels"
    /\ SpawnedPorts(calls) = <<TunnelPortBase + 1>>
    /\ Len(sessions) = 2
    /\ \E i \in 1..Len(sessions) :
           /\ HasTunnel(sessions[i])
           /\ sessions[i].sshTunnel.tunnelPort = TunnelPortBase + 1
           /\ \E k \in 1..Len(calls) :
                  calls[k].op = "getInstance" /\ calls[k].arg = sessions[i].instance.id
    /\ \E j \in TunnelLess(sessions) : sessions[j].instance.actual_status = "loading"

\* the instances a phase has evicted in the current cycle
EvictedIn(phase) ==
    {evicted[k].id : k \in {j \in 1..Len(evicted) : evicted[j].phase = phase}}

\* C19: each phase of a cycle evicts at most once: createTunnels evicts at
\* most one session in a cycle, and monitor evicts at most one instance in a
\* cycle.
C19_OneEvictionPerPhase ==
    /\ Cardinality(EvictedIn("createTunnels")) <= 1
    /\ Cardinality(EvictedIn("monitor")) <= 1

\* monitor has evicted two instances in one cycle, and both machines are in
\* the blocklist
C19_Witness ==
    /\ pc = "sleep"
    /\ Cardinality(EvictedIn("monitor")) = 2
    /\ \A i \in 1..Len(sessions) :
           /\ sessions[i].instance.id \in EvictedIn("monitor")
           /\ sessions[i].instance.machine_id \in Range(blockedMachineIDs)

\* a termination request for instance id was issued and the blocklist, in
\* memory and on disk, was left as it was
TerminatedUnblocked(cs, id) ==
    /\ \E k \in 1..Len(cs) : cs[k].op = "terminateInstance" /\ cs[k].arg = id
    /\ \A k \in 1..Len(cs) : cs[k].op # "writeFile"

\* C20: an instance whose status is 'exited' is terminated and its machine is
\* not blocked, whatever the tunnel state and the telemetry: the pass of
\* monitor over a tunneled session with an exited instance, and the turn of
\* createTunnels whose fetch shows the instance exited, issue a termination
\* request for it and leave the blocklist unchanged.
C20_ExitedNotBlocked ==
    [][/\ (/\ pc = "monitor" /\ mi <= Len(sessions)
           /\ HasTunnel(sessions[mi])
           /\ sessions[mi].instance.actual_status = "exited")
          => /\ TerminatedUnblocked(calls', sessions[mi].instance.id)
             /\ blockedMachineIDs' = blockedMachineIDs
             /\ blockedFile' = blockedFile
       /\ pc = "createTunnels"
          => \A k \in 1..Len(calls') :
                 (/\ calls'[k].op = "getInstance"
                  /\ calls'[k].list # <<>>
                  /\ calls'[k].list[1].actual_status = "exited")
                     => /\ TerminatedUnblocked(calls', calls'[k].arg)
                        /\ blockedMachineIDs' = blockedMachineIDs
                        /\ blockedFile' = blockedFile]_vars

\* a tunnel-less session was fetched PollAttempts times, the last fetch showed
\* its instance exited, and its machine was written to the blocklist
C20_Witness ==
    /\ Len(calls) = PollAttempts + 2
    /\ calls[PollAttempts].op = "getInstance"
    /\ calls[PollAttempts].list # <<>>
    /\ calls[PollAttempts].list[1].actual_status = "exited"
    /\ calls[PollAttempts + 1].op = "writeFile"
    /\ calls[PollAttempts + 1].arg \in Range(blockedMachineIDs)
    /\ calls[PollAttempts + 2] = Call("terminateInstance", calls[PollAttempts].arg)

\* C21: a marketplace call makes at most WrapAttempts attempts; an attempt
\* that fails with a transient error (rate limit, 5xx, network) or with an
\* error of no known class is followed by another attempt until the budget is
\* spent, and an attempt that fails with an error known to be non-transient
\* (a 4xx status other than 429) is the last one and the call is rejected.
C21_RetryPolicy ==
    LET n == Len(calls)
        ans(k) == calls[k].list[1]
        nonTransient(a) == a.axios /\ a.status >= 400 /\ a.status < 500 /\ a.status # 429
    IN  pc \in {"wrap", "resolved", "rejected"}
            => /\ n <= WrapAttempts
               /\ \A k \in 1..(n - 1) : ~ans(k).ok /\ ~nonTransient(ans(k))
               /\ pc = "resolved" => ans(n).ok
               /\ pc = "rejected" => ~ans(n).ok /\ (nonTransient(ans(n)) \/ n = WrapAttempts)
               /\ (pc = "wrap" /\ n > 0) => ~ans(n).ok /\ ~nonTransient(ans(n))

\* a call was rejected after a single attempt answered with status 500
C21_Witness ==
    /\ pc = "rejected"
    /\ Len(calls) = 1
    /\ calls[1].op = "getInstances"
    /\ calls[1].arg = 500

\* the manager holds a session without a tunnel for instance id
TunnelLessSession(id) ==
    \E i \in TunnelLess(sessions) : sessions[i].instance.id = id

\* the step just taken spawned a tunnel for instance id, or evicted it
ProvisionedOrEvicted(id) ==
    \/ \E k \in 1..Len(calls) :
           /\ calls[k].op = "autossh"
           /\ \E j \in 1..(k - 1) : calls[j].op = "getInstance" /\ calls[j].arg = id
    \/ \E k \in 1..Len(calls) : calls[k] = Call("terminateInstance", id)

\* C22: a session without a tunnel does not stay so forever unhandled: as
\* long as run() goes on, its calls are answered and the marketplace lists the
\* instance, the manager comes to spawn a tunnel for it or to evict it,
\* whatever happens to the other sessions.
C22_NoStarvation ==
    \A id \in InstanceIds :
        TunnelLessSession(id)
            ~> (\/ ~TunnelLessSession(id)
                \/ ProvisionedOrEvicted(id)
                \/ pc \in {"stopped", "hung"})

\* two sessions wait for a tunnel; createTunnels has just spawned one for the
\* first and the second has not been taken up
C22_Witness ==
    /\ pc = "createTunnels"
    /\ Cardinality(TunnelLess(sessions)) = 2
    /\ ProvisionedOrEvicted(sessions[1].instance.id)
    /\ ~ProvisionedOrEvicted(sessions[2].instance.id)
    /\ SpawnedPorts(calls) = <<TunnelPortBase + 1>>

\* C23: among the live tunnel processes, all spawned by the manager, no two
\* forward the same local port and no two serve the same endpoint (address,
\* remote port) of an instance, also when the listing that follows a spawn
\* does not show the new process yet.
C23_NoDuplicateTunnel ==
    \A i, j \in 1..Len(procs) :
        i # j => /\ procs[i].tunnelPort # procs[j].tunnelPort
                 /\ ~(procs[i].host = procs[j].host /\ procs[i].port = procs[j].port)

\* two live tunnel processes for the endpoint of one session, on one local
\* port, the first of them attached to the session
C23_Witness ==
    /\ Len(procs) = 2
    /\ procs[1].tunnelPort = procs[2].tunnelPort
    /\ \E i \in 1..Len(sessions) :
           /\ sessions[i].sshTunnel = procs[1]
           /\ Matches(procs[2], sessions[i].instance)

====
